---- MODULE Spec2Model ----
(***************************************************************************)
(* Model of the stock-sentiment ETL pipeline (crisveg24/par_2DB).          *)
(*                                                                         *)
(* A Record Table (pandas DataFrame) is a record                           *)
(*   [columns, dtypes, index, rows]                                        *)
(* columns : sequence of column names, each a sequence of characters       *)
(* dtypes  : per column, "object" | "int64" | "float64" | "datetime64"     *)
(* index   : the row labels (pandas index), one per row                    *)
(* rows    : sequence of rows, each a sequence of cells aligned with       *)
(*           columns                                                       *)
(* A cell is a record [k, n, s]: k = "nan" (NaN / NaT / None),             *)
(* k = "num" (number n; for a datetime64 column n is the number of days    *)
(* since 1970-01-01), k = "str" (text s, a sequence of characters).        *)
(* pandas semantics are those of pandas 2.x without copy-on-write, the     *)
(* line the sources are written against (main.py uses freq='ME').          *)
(***************************************************************************)
EXTENDS Integers, Sequences, FiniteSets, TLC

VARIABLES raw_data, clean_data, transformation_log, pc, outcome, calls,
          sorted_as, first_output,
          data, load_log, csv_file, parquet_file, db, conns, last_call,
          query_result,
          file, ex_data, tried, ex_result, reads, view,
          stage, started, fatal, exit_code

\* the state of one StockTransformer, and what the sort_values call of its
\* date cleaning did the last time: the dates it was given and the order it
\* gave them (the sort is a function of its input, whichever function it is)
transformer ==
  <<raw_data, clean_data, transformation_log, pc, outcome, calls, sorted_as>>

\* the state outside the StockTransformer
\* the state of one StockLoader: its fields, the files of its output
\* directory, the sqlite3 connections open in the process, and what the last
\* call on it was and how it ended
loader ==
  <<data, load_log, csv_file, parquet_file, db, conns, last_call, query_result>>

\* the state of one StockExtractor: the file at file_path (whether it exists
\* and its bytes), its field data, the encodings the last
\* extract_data call passed to pd.read_csv, how that call ended, how
\* many times the file has been read, and what the last call of
\* get_data_info or preview_data was and gave
extractor == <<file, ex_data, tried, ex_result, reads, view>>

\* the state of one run of main(): the phase it is in, the phases it has
\* started, the phase whose exception reached its except clauses, and the
\* status it returned (-1 until it returns)
driver == <<stage, started, fatal, exit_code>>

outside == <<first_output, loader, extractor, driver>>

vars == <<transformer, outside>>

(***************************************************************************)
(* Bounds of the model.                                                    *)
(***************************************************************************)
MaxRows == 3

MaxCalls == 1

\* sink attempts on one StockLoader after which no further call is made
MaxAttempts == 2

\* bytes in the file StockExtractor reads
MaxBytes == 3

\* reads of the file after which extract_data is not called again
MaxReads == 3

\* the largest n_rows preview_data is asked for, its default apart
MaxAsked == 2

(***************************************************************************)
(* Characters and text (Python str).                                       *)
(***************************************************************************)
\* The characters of the model in code-point order.
Alphabet ==
  << "\t", " ", "-", "/",
     "0", "1", "2", "3", "4", "5", "6", "7", "8", "9",
     "A", "B", "C", "D", "E", "F", "G", "H", "I", "J", "K", "L", "M",
     "N", "O", "P", "Q", "R", "S", "T", "U", "V", "W", "X", "Y", "Z",
     "_",
     "a", "b", "c", "d", "e", "f", "g", "h", "i", "j", "k", "l", "m",
     "n", "o", "p", "q", "r", "s", "t", "u", "v", "w", "x", "y", "z" >>

Chars == {Alphabet[i] : i \in 1..Len(Alphabet)}

Ord == [c \in Chars |-> CHOOSE i \in 1..Len(Alphabet) : Alphabet[i] = c]

Whitespace == {"\t", " "}

IsUpper(c) == Ord[c] \in Ord["A"]..Ord["Z"]

IsDigit(c) == Ord[c] \in Ord["0"]..Ord["9"]

DigitVal(c) == Ord[c] - Ord["0"]

\* str.lower on one character
Lower(c) == IF IsUpper(c) THEN Alphabet[Ord[c] - Ord["A"] + Ord["a"]] ELSE c

RECURSIVE LStrip(_)
LStrip(s) == IF s # << >> /\ Head(s) \in Whitespace THEN LStrip(Tail(s)) ELSE s

RECURSIVE RStrip(_)
RStrip(s) ==
  IF s # << >> /\ s[Len(s)] \in Whitespace
  THEN RStrip(SubSeq(s, 1, Len(s) - 1))
  ELSE s

\* str.strip()
StrStrip(s) == RStrip(LStrip(s))

\* str.lower()
StrLower(s) == [i \in 1..Len(s) |-> Lower(s[i])]

\* str.replace(old, new) for one-character old and new
StrReplace(s, old, new) == [i \in 1..Len(s) |-> IF s[i] = old THEN new ELSE s[i]]

\* str.startswith(p)
StartsWith(s, p) == Len(s) >= Len(p) /\ SubSeq(s, 1, Len(p)) = p

\* s < t in Python's string order (lexicographic by code point)
RECURSIVE StrLess(_, _)
StrLess(s, t) ==
  IF t = << >> THEN FALSE
  ELSE IF s = << >> THEN TRUE
  ELSE IF Head(s) = Head(t) THEN StrLess(Tail(s), Tail(t))
  ELSE Ord[Head(s)] < Ord[Head(t)]

(***************************************************************************)
(* Cells.                                                                  *)
(***************************************************************************)
NaN == [k |-> "nan", n |-> 0, s |-> << >>]

Num(i) == [k |-> "num", n |-> i, s |-> << >>]

Str(s) == [k |-> "str", n |-> 0, s |-> s]

IsNull(c) == c.k = "nan"

(***************************************************************************)
(* Tables.                                                                 *)
(***************************************************************************)
NRows(t) == Len(t.rows)

NCols(t) == Len(t.columns)

\* position of the column called name, 0 when there is none ('name' in columns)
ColIdx(t, name) ==
  IF \E i \in 1..NCols(t) : t.columns[i] = name
  THEN CHOOSE i \in 1..NCols(t) :
         /\ t.columns[i] = name
         /\ \A j \in 1..(i - 1) : t.columns[j] # name
  ELSE 0

HasCol(t, name) == ColIdx(t, name) # 0

\* df[name] as the sequence of its cells
ColumnAt(t, i) == [r \in 1..NRows(t) |-> t.rows[r][i]]

\* df[columns[i]] = cells, with the dtype of the assigned Series
SetColumnAt(t, i, cells, dtype) ==
  [t EXCEPT !.dtypes[i] = dtype,
            !.rows = [r \in 1..NRows(t) |-> [t.rows[r] EXCEPT ![i] = cells[r]]]]

\* df[name] = cells: overwrites the column when it exists, appends it otherwise
AssignColumn(t, name, cells, dtype) ==
  IF HasCol(t, name)
  THEN SetColumnAt(t, ColIdx(t, name), cells, dtype)
  ELSE [t EXCEPT !.columns = Append(t.columns, name),
                 !.dtypes = Append(t.dtypes, dtype),
                 !.rows = [r \in 1..NRows(t) |-> Append(t.rows[r], cells[r])]]

\* df.isnull().sum().sum()
NullCount(t) ==
  Cardinality({<<r, c>> \in (1..NRows(t)) \X (1..NCols(t)) : IsNull(t.rows[r][c])})

\* the rows at positions keep (ascending), each with its index label
TakeRows(t, keep) ==
  [t EXCEPT !.rows = [i \in 1..Len(keep) |-> t.rows[keep[i]]],
            !.index = [i \in 1..Len(keep) |-> t.index[keep[i]]]]

\* df.reset_index(drop=True): the index becomes 0..n-1
ResetIndex(t) == [t EXCEPT !.index = [i \in 1..NRows(t) |-> i - 1]]

\* 1, 2, .., n
Iota(n) == [i \in 1..n |-> i]

(***************************************************************************)
(* Calendar (numpy datetime64 / pandas tslibs).                            *)
(***************************************************************************)
IsLeap(y) == (y % 4 = 0 /\ y % 100 # 0) \/ y % 400 = 0

DaysInMonth(y, m) ==
  IF m = 2 THEN (IF IsLeap(y) THEN 29 ELSE 28)
  ELSE IF m \in {4, 6, 9, 11} THEN 30
  ELSE 31

RECURSIVE DaysBeforeMonth(_, _)
DaysBeforeMonth(y, m) ==
  IF m <= 1 THEN 0 ELSE DaysBeforeMonth(y, m - 1) + DaysInMonth(y, m - 1)

\* leap years in 1 .. y-1
LeapsBefore(y) == ((y - 1) \div 4) - ((y - 1) \div 100) + ((y - 1) \div 400)

\* days from 1970-01-01 to y-m-d (the value a datetime64 holds)
DaysFromCivil(y, m, d) ==
  365 * (y - 1970) + LeapsBefore(y) - LeapsBefore(1970)
    + DaysBeforeMonth(y, m) + (d - 1)

\* the calendar fields of a datetime64 value z (days since 1970-01-01)
CivilFromDays(z) ==
  LET z0  == z + 719468
      era == z0 \div 146097
      doe == z0 - era * 146097
      yoe == (doe - (doe \div 1460) + (doe \div 36524) - (doe \div 146096)) \div 365
      doy == doe - (365 * yoe + (yoe \div 4) - (yoe \div 100))
      mp  == (5 * doy + 2) \div 153
      d   == doy - ((153 * mp + 2) \div 5) + 1
      m   == IF mp < 10 THEN mp + 3 ELSE mp - 9
      y   == yoe + era * 400 + (IF m <= 2 THEN 1 ELSE 0)
  IN  [year |-> y, month |-> m, day |-> d]

\* pandas ccalendar.dayofweek, Sunday first: 0 = Sunday .. 6 = Saturday
DayOfWeekSundayFirst(y, m, d) ==
  LET sakamoto == <<0, 3, 2, 5, 0, 3, 5, 1, 4, 6, 2, 4>>
      yy == IF m < 3 THEN y - 1 ELSE y
  IN  (yy + (yy \div 4) - (yy \div 100) + (yy \div 400) + sakamoto[m] + d) % 7

\* mutant of DayOfWeek: the week counted from Sunday
DayOfWeekFromSunday(y, m, d) == DayOfWeekSundayFirst(y, m, d)

\* Series.dt.dayofweek: 0 = Monday .. 6 = Sunday
DayOfWeek(y, m, d) == (DayOfWeekSundayFirst(y, m, d) + 6) % 7

\* Series.dt.quarter
Quarter(m) == ((m - 1) \div 3) + 1

\* a text of the form YYYY-MM-DD
IsIsoShaped(s) ==
  /\ Len(s) = 10
  /\ s[5] = "-" /\ s[8] = "-"
  /\ \A i \in {1, 2, 3, 4, 6, 7, 9, 10} : IsDigit(s[i])

IsoYear(s) ==
  1000 * DigitVal(s[1]) + 100 * DigitVal(s[2]) + 10 * DigitVal(s[3]) + DigitVal(s[4])

IsoMonth(s) == 10 * DigitVal(s[6]) + DigitVal(s[7])

IsoDay(s) == 10 * DigitVal(s[9]) + DigitVal(s[10])

\* whether pd.to_datetime can parse the text s (errors='raise')
Parseable(s) ==
  /\ IsIsoShaped(s)
  /\ IsoYear(s) >= 1678 /\ IsoYear(s) <= 2261
  /\ IsoMonth(s) \in 1..12
  /\ IsoDay(s) >= 1 /\ IsoDay(s) <= DaysInMonth(IsoYear(s), IsoMonth(s))

\* the datetime64 value of a parseable text
ParseDate(s) == DaysFromCivil(IsoYear(s), IsoMonth(s), IsoDay(s))

(***************************************************************************)
(* Column names and values the code names.                                 *)
(***************************************************************************)
DATE == <<"d", "a", "t", "e">>

LABEL == <<"l", "a", "b", "e", "l">>

TOP == <<"t", "o", "p">>

YEAR == <<"y", "e", "a", "r">>

MONTH == <<"m", "o", "n", "t", "h">>

DAY == <<"d", "a", "y">>

DAY_OF_WEEK == <<"d", "a", "y", "_", "o", "f", "_", "w", "e", "e", "k">>

QUARTER == <<"q", "u", "a", "r", "t", "e", "r">>

SENTIMENT == <<"s", "e", "n", "t", "i", "m", "e", "n", "t">>

\* the literal 'nan'
NanText == <<"n", "a", "n">>

Numeric == {"int64", "float64"}

\* [col for col in columns if col.startswith('top')], as column positions
TopCols(t) == {i \in 1..NCols(t) : StartsWith(t.columns[i], TOP)}

\* mutant of LogEntry: every entry under the name of the last step
LogEntryLastStep(paso, cambios) ==
  [paso |-> "Creacion de features", cambios |-> cambios]

LogEntry(paso, cambios) == [paso |-> paso, cambios |-> cambios]

(***************************************************************************)
(* Step 1: _normalize_column_names                                         *)
(***************************************************************************)
\* mutant of NormalizeName: the hyphen replacement left out
NormalizeNameKeepsHyphen(name) == StrReplace(StrLower(StrStrip(name)), " ", "_")

\* .str.strip().str.lower().str.replace(' ', '_').str.replace('-', '_')
NormalizeName(name) ==
  StrReplace(StrReplace(StrLower(StrStrip(name)), " ", "_"), "-", "_")

NormalizedColumns(t) ==
  [t EXCEPT !.columns = [i \in 1..NCols(t) |-> NormalizeName(t.columns[i])]]

(***************************************************************************)
(* Step 2: _convert_data_types                                             *)
(***************************************************************************)
\* whether pd.to_datetime(df['date']) returns (errors='raise': one text
\* that cannot be parsed makes the whole call raise)
ToDatetimeOk(t) ==
  LET i == ColIdx(t, DATE)
  IN  \/ t.dtypes[i] = "datetime64"
      \/ \A r \in 1..NRows(t) :
           LET c == t.rows[r][i]
           IN  IsNull(c) \/ (c.k = "str" /\ Parseable(c.s))

ToDatetimeCell(c) == IF c.k = "str" THEN Num(ParseDate(c.s)) ELSE c

\* mutant of ConvertDate: pd.to_datetime(.., errors='coerce'), a text that
\* cannot be parsed becomes NaT
ConvertDateCoerce(t) ==
  LET i == ColIdx(t, DATE)
  IN  IF i = 0 \/ t.dtypes[i] = "datetime64" THEN t
      ELSE SetColumnAt(t, i,
                       [r \in 1..NRows(t) |->
                          LET c == t.rows[r][i]
                          IN  IF c.k = "str" /\ Parseable(c.s)
                              THEN Num(ParseDate(c.s))
                              ELSE NaN],
                       "datetime64")

\* the date column after the try/except around pd.to_datetime: converted,
\* or left as it was when the call raised
ConvertDate(t) ==
  LET i == ColIdx(t, DATE)
  IN  IF i = 0 \/ ~ToDatetimeOk(t) \/ t.dtypes[i] = "datetime64" THEN t
      ELSE SetColumnAt(t, i,
                       [r \in 1..NRows(t) |-> ToDatetimeCell(t.rows[r][i])],
                       "datetime64")

\* whether df['label'].astype(int) returns: NaN cannot be cast to int
AstypeIntOk(t) ==
  LET i == ColIdx(t, LABEL)
  IN  \A r \in 1..NRows(t) : t.rows[r][i].k = "num"

\* mutant of ConvertLabel: the cast is reported as done even when it raised
ConvertLabelForced(t) ==
  LET i == ColIdx(t, LABEL)
  IN  IF i = 0 THEN t
      ELSE [t EXCEPT !.dtypes[i] = "int64"]

\* the label column after the try/except around astype(int)
ConvertLabel(t) ==
  LET i == ColIdx(t, LABEL)
  IN  IF i = 0 \/ ~AstypeIntOk(t) THEN t
      ELSE [t EXCEPT !.dtypes[i] = "int64"]

\* fillna('') ; astype(str) ; replace('nan', '') on one cell
TopCell(c) ==
  IF IsNull(c) THEN Str(<< >>)
  ELSE IF c.k = "str" /\ c.s = NanText THEN Str(<< >>)
  ELSE c

ConvertTop(t) ==
  [t EXCEPT !.dtypes = [i \in 1..NCols(t) |->
                          IF i \in TopCols(t) THEN "object" ELSE t.dtypes[i]],
            !.rows = [r \in 1..NRows(t) |-> [i \in 1..NCols(t) |->
                          IF i \in TopCols(t) THEN TopCell(t.rows[r][i])
                          ELSE t.rows[r][i]]]]

\* the counter `conversions`
Conversions(t) ==
  (IF HasCol(t, DATE) /\ ToDatetimeOk(t) THEN 1 ELSE 0)
    + (IF HasCol(t, LABEL) /\ AstypeIntOk(t) THEN 1 ELSE 0)
    + Cardinality(TopCols(t))

ConvertedTypes(t) == ConvertTop(ConvertLabel(ConvertDate(t)))

(***************************************************************************)
(* Step 3: _handle_missing_values                                          *)
(***************************************************************************)
\* mutant of ModeOrZero: the largest of the most frequent values
ModeOrZeroLargest(cells) ==
  LET vals == {cells[r].n : r \in {q \in 1..Len(cells) : ~IsNull(cells[q])}}
      Count(v) == Cardinality({r \in 1..Len(cells) :
                                 ~IsNull(cells[r]) /\ cells[r].n = v})
      best == {v \in vals : \A w \in vals : Count(w) <= Count(v)}
  IN  IF vals = {} THEN 0
      ELSE CHOOSE v \in best : \A w \in best : v >= w

\* Series.mode()[0] if not Series.mode().empty else 0: the most frequent
\* non-null value, the smallest one on a tie, 0 when every value is null
ModeOrZero(cells) ==
  LET vals == {cells[r].n : r \in {q \in 1..Len(cells) : ~IsNull(cells[q])}}
      Count(v) == Cardinality({r \in 1..Len(cells) :
                                 ~IsNull(cells[r]) /\ cells[r].n = v})
      best == {v \in vals : \A w \in vals : Count(w) <= Count(v)}
  IN  IF vals = {} THEN 0
      ELSE CHOOSE v \in best : \A w \in best : v <= w

\* Series.fillna(value)
FillNa(cells, value) ==
  [r \in 1..Len(cells) |-> IF IsNull(cells[r]) THEN value ELSE cells[r]]

\* the numeric-column loop: only 'label' is filled, with its mode
FillLabel(t) ==
  LET i == ColIdx(t, LABEL)
  IN  IF i # 0 /\ t.dtypes[i] \in Numeric
           /\ \E r \in 1..NRows(t) : IsNull(t.rows[r][i])
      THEN SetColumnAt(t, i,
                       FillNa(ColumnAt(t, i), Num(ModeOrZero(ColumnAt(t, i)))),
                       t.dtypes[i])
      ELSE t

\* the text-column loop: nulls of every top* column become ''
FillTop(t) ==
  [t EXCEPT !.rows = [r \in 1..NRows(t) |-> [i \in 1..NCols(t) |->
                        IF i \in TopCols(t) /\ IsNull(t.rows[r][i])
                        THEN Str(<< >>)
                        ELSE t.rows[r][i]]]]

HandledMissing(t) == IF NullCount(t) = 0 THEN t ELSE FillTop(FillLabel(t))

(***************************************************************************)
(* Step 4: _remove_duplicates                                              *)
(***************************************************************************)
\* df.drop_duplicates(): the first of each group of identical rows is kept,
\* with its index label (NaN equals NaN here)
DropDuplicates(t) ==
  TakeRows(t, SelectSeq(Iota(NRows(t)),
                        LAMBDA i : \A j \in 1..(i - 1) : t.rows[j] # t.rows[i]))

(***************************************************************************)
(* Step 5: _clean_dates                                                    *)
(***************************************************************************)
\* df.dropna(subset=['date'])
DropNaDate(t) ==
  LET i == ColIdx(t, DATE)
  IN  TakeRows(t, SelectSeq(Iota(NRows(t)), LAMBDA r : ~IsNull(t.rows[r][i])))

\* a < b for two values of one column: numbers by value, texts by code point
CellLess(a, b) ==
  IF a.k = "num" /\ b.k = "num" THEN a.n < b.n
  ELSE IF a.k = "str" /\ b.k = "str" THEN StrLess(a.s, b.s)
  ELSE FALSE

\* mutant of SortOrders: the rows are left in the order they have
SortOrdersUnsorted(t) == {Iota(NRows(t))}

\* df.sort_values('date'): the orders of the rows that are ascending by date.
\* The default kind is quicksort, which is not stable: rows of equal date may
\* come out in any order.
SortOrders(t) ==
  LET i == ColIdx(t, DATE)
      n == NRows(t)
  IN  {p \in [1..n -> 1..n] :
         /\ \A a, b \in 1..n : a # b => p[a] # p[b]
         /\ \A a, b \in 1..n :
              a < b => ~CellLess(t.rows[p[b]][i], t.rows[p[a]][i])}

(***************************************************************************)
(* Step 6: _normalize_values                                               *)
(***************************************************************************)
\* Series.str.strip() on one cell (NaN stays NaN)
StripCell(c) == IF c.k = "str" THEN Str(StrStrip(c.s)) ELSE c

NormalizedValues(t) ==
  [t EXCEPT !.rows = [r \in 1..NRows(t) |-> [i \in 1..NCols(t) |->
                        IF i \in TopCols(t) THEN StripCell(t.rows[r][i])
                        ELSE t.rows[r][i]]]]

(***************************************************************************)
(* Step 7: _create_features                                                *)
(***************************************************************************)
\* Series.dt exists only for a datetime column; otherwise AttributeError
DtAccessorOk(t) == t.dtypes[ColIdx(t, DATE)] = "datetime64"

DateField(c, f) ==
  IF IsNull(c) THEN NaN
  ELSE LET civil == CivilFromDays(c.n)
       IN  CASE f = "year" -> Num(civil.year)
             [] f = "month" -> Num(civil.month)
             [] f = "day" -> Num(civil.day)
             [] f = "day_of_week" ->
                  Num(DayOfWeek(civil.year, civil.month, civil.day))
             [] f = "quarter" -> Num(Quarter(civil.month))

DateFieldColumn(t, f) ==
  [r \in 1..NRows(t) |-> DateField(t.rows[r][ColIdx(t, DATE)], f)]

\* year, month, day, day_of_week, quarter from date
WithDateFeatures(t) ==
  LET t1 == AssignColumn(t, YEAR, DateFieldColumn(t, "year"), "int32")
      t2 == AssignColumn(t1, MONTH, DateFieldColumn(t, "month"), "int32")
      t3 == AssignColumn(t2, DAY, DateFieldColumn(t, "day"), "int32")
      t4 == AssignColumn(t3, DAY_OF_WEEK, DateFieldColumn(t, "day_of_week"), "int32")
  IN  AssignColumn(t4, QUARTER, DateFieldColumn(t, "quarter"), "int32")

\* mutant of SentimentCell: the two names exchanged
SentimentCellSwapped(c) ==
  IF c.k = "num" /\ c.n = 0 THEN Str(<<"P", "o", "s", "i", "t", "i", "v", "o">>)
  ELSE IF c.k = "num" /\ c.n = 1 THEN Str(<<"N", "e", "g", "a", "t", "i", "v", "o">>)
  ELSE NaN

\* Series.map({0: 'Negativo', 1: 'Positivo'}) on one cell: a value that is
\* no key of the mapping becomes NaN
SentimentCell(c) ==
  IF c.k = "num" /\ c.n = 0 THEN Str(<<"N", "e", "g", "a", "t", "i", "v", "o">>)
  ELSE IF c.k = "num" /\ c.n = 1 THEN Str(<<"P", "o", "s", "i", "t", "i", "v", "o">>)
  ELSE NaN

WithSentiment(t) ==
  AssignColumn(t, SENTIMENT,
               [r \in 1..NRows(t) |-> SentimentCell(t.rows[r][ColIdx(t, LABEL)])],
               "object")

(***************************************************************************)
(* Raw tables: what StockExtractor.extract_data (pd.read_csv) hands to the *)
(* transformer.                                                            *)
(***************************************************************************)
\* clean_data before the first transform_all
None == [none |-> TRUE]

\* the dtype pd.read_csv infers for a column
RawDtype(cells) ==
  IF Len(cells) = 0 THEN "object"
  ELSE IF \E r \in 1..Len(cells) : cells[r].k = "str" THEN "object"
  ELSE IF \E r \in 1..Len(cells) : IsNull(cells[r]) THEN "float64"
  ELSE "int64"

\* the DataFrame with the given header and rows, index 0..n-1
MakeTable(header, rows) ==
  [columns |-> header,
   dtypes |-> [i \in 1..Len(header) |->
                 RawDtype([r \in 1..Len(rows) |-> rows[r][i]])],
   index |-> [r \in 1..Len(rows) |-> r - 1],
   rows |-> rows]

Digit(v) == Alphabet[Ord["0"] + v]

\* the text YYYY-MM-DD
IsoText(y, m, d) ==
  << Digit(y \div 1000), Digit((y \div 100) % 10), Digit((y \div 10) % 10),
     Digit(y % 10), "-", Digit(m \div 10), Digit(m % 10), "-",
     Digit(d \div 10), Digit(d % 10) >>

\* the header of the dataset
Header == << <<"D", "a", "t", "e">>, <<"L", "a", "b", "e", "l">>,
             <<"T", "o", "p", "1">> >>

\* headers that differ from it in case, spacing and hyphens
HeaderVariants ==
  { <<d, l, t>> :
      d \in { <<"D", "a", "t", "e">>, <<" ", "d", "a", "t", "e", " ">>,
              <<"D", "A", "T", "E">> },
      l \in { <<"L", "a", "b", "e", "l">>, <<"l", "a", "b", "e", "l">> },
      t \in { <<"T", "o", "p", "1">>, <<"T", "o", "p", "-", "1">>,
              <<"t", "o", "p", " ", "1">>,
              <<"\t", "T", "O", "P", "_", "1", " ">> } }

GoodDate1 == Str(IsoText(2016, 2, 29))

GoodDate2 == Str(IsoText(2015, 12, 31))

BadDate == Str(<<"T", "B", "D">>)

Headline == Str(<<"a">>)

PaddedHeadline == Str(<<" ", "a">>)

\* the text 'nan' after a space
PaddedNan == Str(<<" ">> \o NanText)

\* the rows the input tables are made of: <<date, label, headline>>
RawRows ==
  { <<GoodDate1, Num(0), Headline>>,
    <<GoodDate1, Num(1), Headline>>,
    <<GoodDate1, NaN, Headline>>,
    <<NaN, Num(1), Headline>>,
    <<BadDate, Num(1), Headline>>,
    <<GoodDate2, Num(2), Headline>>,
    <<GoodDate1, Num(1), PaddedHeadline>>,
    <<GoodDate2, Num(1), NaN>>,
    <<GoodDate1, Num(1), Str(NanText)>> }

\* calendar dates and impossible ones (Feb 30, Apr 31, ..) around leap years
DateTexts ==
  { IsoText(y, m, d) : y \in {1900, 2000, 2015, 2016}, m \in 1..12,
                       d \in {1, 15, 28, 29, 30, 31} }

RowSeqs == UNION { [1..n -> RawRows] : n \in 0..MaxRows }

RawTables ==
  { MakeTable(Header, rows) : rows \in RowSeqs }
    \cup { MakeTable(Header, << <<Str(d), Num(1), Headline>> >>) : d \in DateTexts }
    \cup { MakeTable(Header, << <<GoodDate1, Num(1), PaddedNan>> >>) }
    \cup { MakeTable(h, rows) :
             h \in HeaderVariants,
             rows \in { << >>, << <<GoodDate1, Num(1), PaddedHeadline>> >> } }

(***************************************************************************)
(* The objects around the transformer before they are constructed.         *)
(***************************************************************************)
\* the tables a database file may hold and the indexes load_to_sqlite names
TableNames == {"stock_sentiment", "other"}

IndexNames == {"idx_date", "idx_label"}

\* a database file with no table and no index
EmptyDb ==
  [tables |-> [n \in TableNames |-> None], indexes |-> [x \in IndexNames |-> None]]

NoCall == [op |-> "none", result |-> "none"]

\* no StockLoader has been constructed
LoaderUnused ==
  /\ data = None
  /\ load_log = << >>
  /\ csv_file = None
  /\ parquet_file = None
  /\ db = EmptyDb
  /\ conns = 0
  /\ last_call = NoCall
  /\ query_result = None

\* main() is not running
DriverUnused ==
  /\ stage = "none"
  /\ started = << >>
  /\ fatal = "none"
  /\ exit_code = -1

\* no file at file_path
NoFile == [exists |-> FALSE, bytes |-> << >>]

\* no StockExtractor has been constructed
\* neither get_data_info nor preview_data has been called
NoView == [op |-> "none", n |-> 0, raised |-> FALSE, rows |-> << >>, filas |-> 0]

ExtractorUnused ==
  /\ file = NoFile
  /\ ex_data = None
  /\ tried = << >>
  /\ ex_result = "none"
  /\ reads = 0
  /\ view = NoView

\* no sort has been made yet
NoSort == [keys |-> << >>, order |-> << >>]

\* no StockTransformer has been constructed
TransformerUnused ==
  /\ raw_data = None
  /\ clean_data = None
  /\ transformation_log = << >>
  /\ pc = "idle"
  /\ outcome = "none"
  /\ calls = 0
  /\ sorted_as = NoSort
  /\ first_output = None

(***************************************************************************)
(* StockTransformer                                                        *)
(***************************************************************************)
\* __init__: the transformer right after construction
Init ==
  /\ raw_data \in RawTables
  /\ clean_data = None
  /\ transformation_log = << >>
  /\ pc = "idle"
  /\ outcome = "none"
  /\ calls = 0
  /\ sorted_as = NoSort
  /\ first_output = None
  /\ LoaderUnused
  /\ ExtractorUnused
  /\ DriverUnused

\* transform_all up to its first step: clean_data = raw_data.copy()
TransformAll ==
  /\ pc = "idle"
  /\ calls < MaxCalls
  /\ clean_data' = raw_data
  /\ pc' = "normalize_column_names"
  /\ outcome' = "running"
  /\ calls' = calls + 1
  /\ UNCHANGED <<raw_data, transformation_log>>
  /\ UNCHANGED <<sorted_as, outside>>

NormalizeColumnNames ==
  /\ pc = "normalize_column_names"
  /\ clean_data' = NormalizedColumns(clean_data)
  /\ transformation_log' =
       IF clean_data.columns # clean_data'.columns
       THEN Append(transformation_log,
                   LogEntry("Normalizacion de columnas", << >>))
       ELSE transformation_log
  /\ pc' = "convert_data_types"
  /\ UNCHANGED <<raw_data, outcome, calls>>
  /\ UNCHANGED <<sorted_as, outside>>

ConvertDataTypes ==
  /\ pc = "convert_data_types"
  /\ clean_data' = ConvertedTypes(clean_data)
  /\ transformation_log' =
       IF Conversions(clean_data) > 0
       THEN Append(transformation_log,
                   LogEntry("Conversion de tipos", <<Conversions(clean_data)>>))
       ELSE transformation_log
  /\ pc' = "handle_missing_values"
  /\ UNCHANGED <<raw_data, outcome, calls>>
  /\ UNCHANGED <<sorted_as, outside>>

HandleMissingValues ==
  /\ pc = "handle_missing_values"
  /\ clean_data' = HandledMissing(clean_data)
  /\ transformation_log' =
       IF NullCount(clean_data) = 0 THEN transformation_log
       ELSE Append(transformation_log,
                   LogEntry("Manejo de nulos",
                            <<NullCount(clean_data), NullCount(clean_data')>>))
  /\ pc' = "remove_duplicates"
  /\ UNCHANGED <<raw_data, outcome, calls>>
  /\ UNCHANGED <<sorted_as, outside>>

RemoveDuplicates ==
  /\ pc = "remove_duplicates"
  /\ clean_data' = DropDuplicates(clean_data)
  /\ transformation_log' =
       IF NRows(clean_data) - NRows(clean_data') > 0
       THEN Append(transformation_log,
                   LogEntry("Eliminacion de duplicados",
                            <<NRows(clean_data) - NRows(clean_data')>>))
       ELSE transformation_log
  /\ pc' = "clean_dates"
  /\ UNCHANGED <<raw_data, outcome, calls>>
  /\ UNCHANGED <<sorted_as, outside>>

CleanDates ==
  /\ pc = "clean_dates"
  /\ IF ~HasCol(clean_data, DATE)
     THEN UNCHANGED <<clean_data, transformation_log, sorted_as>>
     ELSE LET kept == DropNaDate(clean_data)
              keys == ColumnAt(kept, ColIdx(kept, DATE))
          IN  /\ \E p \in SortOrders(kept) :
                   /\ keys = sorted_as.keys => p = sorted_as.order
                   /\ clean_data' = ResetIndex(TakeRows(kept, p))
                   /\ sorted_as' = [keys |-> keys, order |-> p]
              /\ transformation_log' =
                   IF NRows(clean_data) - NRows(kept) > 0
                   THEN Append(transformation_log,
                               LogEntry("Limpieza de fechas",
                                        <<NRows(clean_data) - NRows(kept)>>))
                   ELSE transformation_log
  /\ pc' = "normalize_values"
  /\ UNCHANGED <<raw_data, outcome, calls>>
  /\ UNCHANGED outside

NormalizeValues ==
  /\ pc = "normalize_values"
  /\ clean_data' = NormalizedValues(clean_data)
  /\ transformation_log' =
       Append(transformation_log,
              LogEntry("Normalizacion de valores",
                       <<Cardinality(TopCols(clean_data))>>))
  /\ pc' = "create_features"
  /\ UNCHANGED <<raw_data, outcome, calls>>
  /\ UNCHANGED <<sorted_as, outside>>

\* the number of features _create_features counts
FeaturesCreated(t) ==
  (IF HasCol(t, DATE) THEN 5 ELSE 0) + (IF HasCol(t, LABEL) THEN 1 ELSE 0)

\* the table _create_features builds when no statement of it raises
Featured(t) ==
  LET t1 == IF HasCol(t, DATE) THEN WithDateFeatures(t) ELSE t
  IN  IF HasCol(t1, LABEL) THEN WithSentiment(t1) ELSE t1

\* _create_features and the return of transform_all. The first use of
\* Series.dt raises AttributeError when date is not a datetime column;
\* nothing catches it, so it leaves transform_all.
CreateFeatures ==
  /\ pc = "create_features"
  /\ IF HasCol(clean_data, DATE) /\ ~DtAccessorOk(clean_data)
     THEN /\ outcome' = "raised"
          /\ UNCHANGED <<clean_data, transformation_log>>
     ELSE /\ clean_data' = Featured(clean_data)
          /\ transformation_log' =
               Append(transformation_log,
                      LogEntry("Creacion de features",
                               <<FeaturesCreated(clean_data)>>))
          /\ outcome' = "returned"
  /\ pc' = "idle"
  /\ UNCHANGED <<raw_data, calls>>
  /\ UNCHANGED <<sorted_as, outside>>

Next ==
  \/ TransformAll
  \/ NormalizeColumnNames
  \/ ConvertDataTypes
  \/ HandleMissingValues
  \/ RemoveDuplicates
  \/ CleanDates
  \/ NormalizeValues
  \/ CreateFeatures

Spec == Init /\ [][Next]_vars

\* StockTransformer(table) built on the table a transform_all call returned;
\* first_output keeps that table for the caller
NewTransformerOnOutput ==
  /\ pc = "idle" /\ outcome = "returned"
  /\ first_output = None
  /\ first_output' = clean_data
  /\ raw_data' = clean_data
  /\ clean_data' = None
  /\ transformation_log' = << >>
  /\ pc' = "idle"
  /\ outcome' = "none"
  /\ calls' = 0
  /\ UNCHANGED <<sorted_as, loader, extractor, driver>>

NextRerun ==
  \/ TransformAll
  \/ NormalizeColumnNames
  \/ ConvertDataTypes
  \/ HandleMissingValues
  \/ RemoveDuplicates
  \/ CleanDates
  \/ NormalizeValues
  \/ CreateFeatures
  \/ NewTransformerOnOutput

\* transform_all, then transform_all again on its own output
SpecRerun == Init /\ [][NextRerun]_vars

\* a StockTransformer on a table of fewer than MaxRows rows
InitTwice ==
  /\ Init
  /\ NRows(raw_data) < MaxRows

\* transform_all called again on the same StockTransformer, by a caller that
\* keeps the table the call before returned in first_output
TransformAllAgain ==
  /\ pc = "idle"
  /\ calls > 0 /\ calls < MaxCalls + 1
  /\ first_output' = IF outcome = "returned" THEN clean_data ELSE first_output
  /\ clean_data' = raw_data
  /\ pc' = "normalize_column_names"
  /\ outcome' = "running"
  /\ calls' = calls + 1
  /\ UNCHANGED <<raw_data, transformation_log, sorted_as>>
  /\ UNCHANGED <<loader, extractor, driver>>

NextTwice ==
  \/ TransformAll
  \/ NormalizeColumnNames
  \/ ConvertDataTypes
  \/ HandleMissingValues
  \/ RemoveDuplicates
  \/ CleanDates
  \/ NormalizeValues
  \/ CreateFeatures
  \/ TransformAllAgain

\* transform_all, then transform_all again on the same StockTransformer
SpecTwice == InitTwice /\ [][NextTwice]_vars

(***************************************************************************)
(* StockLoader (src/Load/stock_loader.py).                                 *)
(***************************************************************************)
\* a DataFrame with the given columns, dtypes and rows, index 0..n-1
TypedTable(columns, dtypes, rows) ==
  [columns |-> columns, dtypes |-> dtypes,
   index |-> [r \in 1..Len(rows) |-> r - 1], rows |-> rows]

\* tables handed to StockLoader: an output of transform_all with a null
\* sentiment, a table without date column and with a numeric and a text
\* null, a table without label column, a table without rows
LoaderTables ==
  { TypedTable(<<DATE, LABEL, TOP \o <<"1">>, SENTIMENT>>,
               <<"datetime64", "int64", "object", "object">>,
               << <<Num(16860), Num(1), Headline,
                    Str(<<"P", "o", "s", "i", "t", "i", "v", "o">>)>>,
                  <<Num(16861), Num(2), Str(<< >>), NaN>> >>),
    TypedTable(<<LABEL, TOP \o <<"1">>>>, <<"float64", "object">>,
               << <<Num(1), Headline>>, <<NaN, NaN>> >>),
    TypedTable(<<DATE, TOP \o <<"1">>>>, <<"datetime64", "object">>,
               << <<Num(16860), Headline>> >>),
    TypedTable(<<DATE, LABEL>>, <<"datetime64", "int64">>, << >>) }

\* os.path.join(output_dir, name + extension) for the default names
CsvPath == "data/stock_senti_clean.csv"

ParquetPath == "data/stock_senti_clean.parquet"

DbPath == "data/stock_senti_clean.db"

\* the decimal text of a natural number
RECURSIVE NatText(_)
NatText(n) ==
  IF n < 10 THEN <<Digit(n)>> ELSE Append(NatText(n \div 10), Digit(n % 10))

\* data_to_save: the copy with NaN replaced by '' in the object columns
TextNullsFilled(t) ==
  [t EXCEPT !.rows = [r \in 1..NRows(t) |-> [i \in 1..NCols(t) |->
                        IF t.dtypes[i] = "object" /\ IsNull(t.rows[r][i])
                        THEN Str(<< >>) ELSE t.rows[r][i]]]]

\* mutant of DataAfterFill: data_to_save is self.data itself
DataAfterFillAliased(t) == TextNullsFilled(t)

\* self.data once data_to_save has been filled: data_to_save is a copy
\* (self.data.copy()), the assignments to its columns do not reach self.data
DataAfterFill(t) == t

\* mutant of CsvField: nulls written with a marker
CsvFieldNullMarker(c, dtype) ==
  IF IsNull(c) THEN NanText
  ELSE IF c.k = "str" THEN c.s
  ELSE NatText(c.n)

\* the field to_csv(na_rep='') writes for one cell
CsvField(c, dtype) ==
  IF IsNull(c) THEN << >>
  ELSE IF c.k = "str" THEN c.s
  ELSE IF dtype = "datetime64"
       THEN LET civil == CivilFromDays(c.n)
            IN  IsoText(civil.year, civil.month, civil.day)
  ELSE IF dtype = "float64" THEN NatText(c.n) \o <<".", "0">>
  ELSE NatText(c.n)

\* the file to_csv(index=False) writes: a header line and one record a row
ToCsv(t) ==
  [header |-> t.columns,
   records |-> [r \in 1..NRows(t) |-> [i \in 1..NCols(t) |->
                  CsvField(t.rows[r][i], t.dtypes[i])]]]

\* pd.read_csv on such a file: the column names and the number of rows. A
\* record of one empty field is written quoted, so only a record without
\* fields is a blank line, and blank lines are skipped.
ReadCsvShape(f) ==
  [columns |-> f.header,
   nrows |-> Cardinality({r \in 1..Len(f.records) : Len(f.records[r]) > 0})]

\* the value to_sql stores for one cell: a datetime as text with its time
SqlValue(c, dtype) ==
  IF dtype = "datetime64" /\ c.k = "num"
  THEN LET civil == CivilFromDays(c.n)
       IN  Str(IsoText(civil.year, civil.month, civil.day)
                 \o <<" ", "0", "0", ":", "0", "0", ":", "0", "0">>)
  ELSE c

SqlTable(t) ==
  [columns |-> t.columns,
   rows |-> [r \in 1..NRows(t) |-> [i \in 1..NCols(t) |->
               SqlValue(t.rows[r][i], t.dtypes[i])]]]

\* DROP TABLE: the table goes, and the indexes on it with it
DropTable(d, name) ==
  [tables |-> [d.tables EXCEPT ![name] = None],
   indexes |-> [x \in IndexNames |->
                  IF d.indexes[x] # None /\ d.indexes[x].table = name
                  THEN None ELSE d.indexes[x]]]

\* mutant of ToSql: if_exists='append'
ToSqlAppend(d, name, t) ==
  IF d.tables[name] = None
  THEN [d EXCEPT !.tables[name] = SqlTable(t)]
  ELSE [d EXCEPT !.tables[name].rows = @ \o SqlTable(t).rows]

\* to_sql(table_name, conn, if_exists='replace', index=False)
ToSql(d, name, t) == [DropTable(d, name) EXCEPT !.tables[name] = SqlTable(t)]

\* CREATE INDEX IF NOT EXISTS idx ON name(column): index names are unique in
\* a database file, whatever table they are on
CreateIndexIfNotExists(d, idx, name, column) ==
  IF d.indexes[idx] # None THEN d
  ELSE [d EXCEPT !.indexes[idx] = [table |-> name, column |-> column]]

\* the two conditional CREATE INDEX statements
Indexed(d, name, t) ==
  LET d1 == IF HasCol(t, DATE)
            THEN CreateIndexIfNotExists(d, "idx_date", name, DATE) ELSE d
  IN  IF HasCol(t, LABEL)
      THEN CreateIndexIfNotExists(d1, "idx_label", name, LABEL) ELSE d1

\* where load_to_sqlite can raise: nowhere, in sqlite3.connect, in to_sql
\* once the old table is dropped and the new one created, in the count
\* query, in the first CREATE INDEX
SqliteFailures == {"none", "connect", "to_sql", "count", "index"}

\* the database file after load_to_sqlite(db_name, name) ending at f
SqliteDb(d, name, t, f) ==
  CASE f = "connect" -> d
    [] f = "to_sql" ->
         [DropTable(d, name) EXCEPT
            !.tables[name] = [columns |-> t.columns, rows |-> << >>]]
    [] f \in {"count", "index"} -> ToSql(d, name, t)
    [] OTHER -> Indexed(ToSql(d, name, t), name, t)

\* connections load_to_sqlite leaves open: conn.close() is reached on the
\* path without exception only
SqliteLeft(f) == IF f \in {"none", "connect"} THEN 0 ELSE 1

\* SELECT COUNT(*) FROM name
SelectCount(d, name) == Len(d.tables[name].rows)

\* os.path.getsize, counted in stored cells
TableSize(t) == IF t = None THEN 0 ELSE Len(t.rows) * Len(t.columns)

\* mutant of CsvEntry: the failure entry written with the destination path
CsvEntryWithPath(ok) ==
  IF ok
  THEN [formato |-> "CSV", archivo |-> CsvPath, tamano |-> TableSize(data),
        filas |-> NRows(data), exitoso |-> TRUE]
  ELSE [formato |-> "CSV", archivo |-> CsvPath, error |-> "to_csv",
        exitoso |-> FALSE]

\* the load_log entries of the three sinks
CsvEntry(ok) ==
  IF ok
  THEN [formato |-> "CSV", archivo |-> CsvPath, tamano |-> TableSize(data),
        filas |-> NRows(data), exitoso |-> TRUE]
  ELSE [formato |-> "CSV", error |-> "to_csv", exitoso |-> FALSE]

ParquetEntry(ok) ==
  IF ok
  THEN [formato |-> "Parquet", archivo |-> ParquetPath,
        tamano |-> TableSize(data), filas |-> NRows(data), exitoso |-> TRUE]
  ELSE [formato |-> "Parquet", error |-> "to_parquet", exitoso |-> FALSE]

SqliteEntry(d, name, f) ==
  IF f = "none"
  THEN [formato |-> "SQLite", archivo |-> DbPath, tabla |-> name,
        tamano |-> TableSize(d.tables["stock_sentiment"])
                     + TableSize(d.tables["other"]),
        filas |-> SelectCount(d, name),
        exitoso |-> TRUE]
  ELSE [formato |-> "SQLite", error |-> f, exitoso |-> FALSE]

\* how the three sinks end: the path returned, None returned, or raised
CsvResult(ok) == IF ok THEN CsvPath ELSE "raised"

\* mutant of ParquetResult: the failure re-raised
ParquetResultRaises(ok) == IF ok THEN ParquetPath ELSE "raised"

ParquetResult(ok) == IF ok THEN ParquetPath ELSE "None"

SqliteResult(f) == IF f = "none" THEN DbPath ELSE "raised"

\* mutant of GetLoadReport: every attempt counted as successful
GetLoadReportCountsAll ==
  [loads |-> load_log,
   successful_loads |-> Len(load_log),
   total_attempts |-> Len(load_log)]

\* get_load_report()
GetLoadReport ==
  [loads |-> load_log,
   successful_loads |->
     Cardinality({i \in 1..Len(load_log) : load_log[i].exitoso}),
   total_attempts |-> Len(load_log)]

\* a database file left by an earlier run on other data: the default table
\* with its two indexes
OldDb ==
  Indexed(ToSql(EmptyDb, "stock_sentiment",
                TypedTable(<<DATE, LABEL>>, <<"datetime64", "int64">>,
                           << <<Num(16000), Num(0)>>, <<Num(16001), Num(1)>>,
                              <<Num(16002), Num(0)>> >>)),
          "stock_sentiment",
          TypedTable(<<DATE, LABEL>>, <<"datetime64", "int64">>, << >>))

\* StockLoader(data, output_dir)
InitLoad ==
  /\ TransformerUnused
  /\ ExtractorUnused
  /\ DriverUnused
  /\ data \in LoaderTables
  /\ load_log = << >>
  /\ csv_file = None
  /\ parquet_file = None
  /\ db \in {EmptyDb, OldDb}
  /\ conns = 0
  /\ last_call = NoCall
  /\ query_result = None

LoadToCsv ==
  /\ Len(load_log) < MaxAttempts
  /\ \E ok \in BOOLEAN :
       /\ csv_file' = IF ok THEN ToCsv(TextNullsFilled(data)) ELSE csv_file
       /\ load_log' = Append(load_log, CsvEntry(ok))
       /\ last_call' = [op |-> "load_to_csv", result |-> CsvResult(ok)]
  /\ data' = DataAfterFill(data)
  /\ UNCHANGED <<parquet_file, db, conns, query_result>>
  /\ UNCHANGED <<transformer, first_output, extractor, driver>>

LoadToParquet ==
  /\ Len(load_log) < MaxAttempts
  /\ \E ok \in BOOLEAN :
       /\ parquet_file' = IF ok THEN data ELSE parquet_file
       /\ load_log' = Append(load_log, ParquetEntry(ok))
       /\ last_call' = [op |-> "load_to_parquet", result |-> ParquetResult(ok)]
  /\ UNCHANGED <<data, csv_file, db, conns, query_result>>
  /\ UNCHANGED <<transformer, first_output, extractor, driver>>

LoadToSqlite ==
  /\ Len(load_log) < MaxAttempts
  /\ \E name \in TableNames, f \in SqliteFailures :
       /\ db' = SqliteDb(db, name, data, f)
       /\ conns' = conns + SqliteLeft(f)
       /\ load_log' = Append(load_log, SqliteEntry(db', name, f))
       /\ last_call' = [op |-> "load_to_sqlite", result |-> SqliteResult(f)]
  /\ UNCHANGED <<data, csv_file, parquet_file, query_result>>
  /\ UNCHANGED <<transformer, first_output, extractor, driver>>

\* load_all: the three sinks in turn, each reached when the one before it
\* did not raise
LoadAll ==
  /\ Len(load_log) < MaxAttempts
  /\ \E c \in BOOLEAN, p \in BOOLEAN, f \in SqliteFailures :
       LET toParquet == CsvResult(c) # "raised"
           toSqlite == toParquet /\ ParquetResult(p) # "raised"
           after == SqliteDb(db, "stock_sentiment", data, f)
       IN  /\ csv_file' = IF c THEN ToCsv(TextNullsFilled(data)) ELSE csv_file
           /\ parquet_file' = IF toParquet /\ p THEN data ELSE parquet_file
           /\ db' = IF toSqlite THEN after ELSE db
           /\ conns' = IF toSqlite THEN conns + SqliteLeft(f) ELSE conns
           /\ load_log' =
                load_log \o <<CsvEntry(c)>>
                  \o (IF toParquet THEN <<ParquetEntry(p)>> ELSE << >>)
                  \o (IF toSqlite
                      THEN <<SqliteEntry(after, "stock_sentiment", f)>>
                      ELSE << >>)
           /\ last_call' =
                [op |-> "load_all",
                 result |-> IF toSqlite /\ SqliteResult(f) # "raised"
                            THEN "None" ELSE "raised"]
  /\ data' = DataAfterFill(data)
  /\ UNCHANGED query_result
  /\ UNCHANGED <<transformer, first_output, extractor, driver>>

\* mutant of SelectAll: the first row only
SelectAllFirstRow(d, name) ==
  [d.tables[name] EXCEPT !.rows = SubSeq(@, 1, 1)]

\* pd.read_sql_query("SELECT * FROM name", conn): the columns and rows of
\* the table
SelectAll(d, name) == d.tables[name]

\* StockLoader.query_sqlite(db_path, table_name) without query. A table
\* that does not exist makes read_sql_query raise, and conn.close() is then
\* not reached.
QuerySqlite ==
  /\ conns < MaxAttempts
  /\ \E name \in TableNames :
       IF db.tables[name] = None
       THEN /\ conns' = conns + 1
            /\ last_call' =
                 [op |-> "query_sqlite", result |-> "raised", table |-> name]
            /\ UNCHANGED query_result
       ELSE /\ query_result' = SelectAll(db, name)
            /\ last_call' =
                 [op |-> "query_sqlite", result |-> "returned", table |-> name]
            /\ UNCHANGED conns
  /\ UNCHANGED <<data, load_log, csv_file, parquet_file, db>>
  /\ UNCHANGED <<transformer, first_output, extractor, driver>>

NextLoad ==
  \/ LoadAll
  \/ LoadToCsv
  \/ LoadToParquet
  \/ LoadToSqlite
  \/ QuerySqlite

SpecLoad == InitLoad /\ [][NextLoad]_vars

(***************************************************************************)
(* StockExtractor (src/Extract/stock_extractor.py).                        *)
(***************************************************************************)
\* the byte values files are made of: 'A', the UTF-8 lead bytes 0xC3 and
\* 0xE9 (0xE9 is also e-acute in latin-1 and cp1252), the continuation
\* bytes 0xA9 and 0x81 (0x81 has no character in cp1252)
FileBytes == {65, 195, 233, 169, 129}

\* the files at file_path: none, or a sequence of bytes
Files ==
  {NoFile} \cup {[exists |-> TRUE, bytes |-> b] :
                   b \in UNION {[1..n -> FileBytes] : n \in 0..MaxBytes}}

\* encodings = ['utf-8', 'latin-1', 'iso-8859-1', 'cp1252']
Encodings == <<"utf-8", "latin-1", "iso-8859-1", "cp1252">>

\* the length of the well-formed UTF-8 sequence b starts with, 0 when b
\* starts with none (sequences of four bytes start above FileBytes)
Utf8Len(b) ==
  LET cont(i) == i <= Len(b) /\ b[i] >= 128 /\ b[i] <= 191
  IN  IF b[1] < 128 THEN 1
      ELSE IF b[1] >= 194 /\ b[1] <= 223 /\ cont(2) THEN 2
      ELSE IF /\ b[1] >= 224 /\ b[1] <= 239
              /\ cont(2) /\ cont(3)
              /\ b[1] = 224 => b[2] >= 160
              /\ b[1] = 237 => b[2] <= 159
           THEN 3
      ELSE 0

\* the code point of the UTF-8 sequence of n bytes b starts with
Utf8Point(b, n) ==
  CASE n = 1 -> b[1]
    [] n = 2 -> (b[1] - 192) * 64 + (b[2] - 128)
    [] n = 3 -> (b[1] - 224) * 4096 + (b[2] - 128) * 64 + (b[3] - 128)

\* bytes.decode('utf-8'): whether it returns, and the code points it gives
RECURSIVE Utf8Decode(_)
Utf8Decode(b) ==
  IF b = << >> THEN [ok |-> TRUE, text |-> << >>]
  ELSE IF Utf8Len(b) = 0 THEN [ok |-> FALSE, text |-> << >>]
  ELSE LET rest == Utf8Decode(SubSeq(b, Utf8Len(b) + 1, Len(b)))
       IN  [ok |-> rest.ok,
            text |-> IF rest.ok
                     THEN <<Utf8Point(b, Utf8Len(b))>> \o rest.text
                     ELSE << >>]

\* the bytes to which cp1252 gives no character
Cp1252Undefined == {129, 141, 143, 144, 157}

\* bytes.decode(encoding): latin-1, alias iso-8859-1, gives every byte its
\* own code point; so does cp1252 outside 0x80-0x9F
Decode(b, encoding) ==
  CASE encoding = "utf-8" -> Utf8Decode(b)
    [] encoding = "cp1252" ->
         IF \E i \in 1..Len(b) : b[i] \in Cp1252Undefined
         THEN [ok |-> FALSE, text |-> << >>]
         ELSE [ok |-> TRUE, text |-> b]
    [] OTHER -> [ok |-> TRUE, text |-> b]

\* the line feed
LF == 10

\* the lines of a text that are not blank (skip_blank_lines=True)
RECURSIVE TextLines(_)
TextLines(text) ==
  IF text = << >> THEN << >>
  ELSE LET ends == {i \in 1..Len(text) : text[i] = LF}
           k == IF ends = {} THEN Len(text) + 1
                ELSE CHOOSE i \in ends : \A j \in ends : i <= j
           line == SubSeq(text, 1, k - 1)
       IN  (IF line = << >> THEN << >> ELSE <<line>>)
             \o TextLines(SubSeq(text, k + 1, Len(text)))

\* the table read from a text: the first line names its column, each later
\* line is a row
DataRows(d) == Tail(TextLines(d.text))

\* pd.read_csv(file_path, encoding=encoding): the error it raises, or "ok"
\* and the text of the table it returns
ReadCsv(f, encoding) ==
  IF ~f.exists THEN [status |-> "FileNotFoundError", text |-> << >>]
  ELSE IF ~Decode(f.bytes, encoding).ok
       THEN [status |-> "UnicodeDecodeError", text |-> << >>]
  ELSE IF TextLines(Decode(f.bytes, encoding).text) = << >>
       THEN [status |-> "EmptyDataError", text |-> << >>]
  ELSE [status |-> "ok", text |-> Decode(f.bytes, encoding).text]

\* mutant of TryEncodings: every error of a read, not only a decoding
\* error, sends the loop to the next encoding
RECURSIVE TryEncodingsAnyError(_, _)
TryEncodingsAnyError(f, i) ==
  LET r == ReadCsv(f, Encodings[i])
  IN  IF r.status # "ok" /\ i < Len(Encodings)
      THEN LET later == TryEncodingsAnyError(f, i + 1)
           IN  [later EXCEPT !.tried = <<Encodings[i]>> \o @]
      ELSE [status |-> r.status, text |-> r.text, tried |-> <<Encodings[i]>>]

\* mutant of TryEncodings: no break after a read that succeeded
RECURSIVE TryEncodingsNoBreak(_, _)
TryEncodingsNoBreak(f, i) ==
  LET r == ReadCsv(f, Encodings[i])
  IN  IF r.status = "ok" /\ i < Len(Encodings)
      THEN LET later == TryEncodingsNoBreak(f, i + 1)
           IN  [later EXCEPT !.tried = <<Encodings[i]>> \o @]
      ELSE IF r.status = "UnicodeDecodeError" /\ i < Len(Encodings)
      THEN LET later == TryEncodingsNoBreak(f, i + 1)
           IN  [later EXCEPT !.tried = <<Encodings[i]>> \o @]
      ELSE [status |-> r.status, text |-> r.text, tried |-> <<Encodings[i]>>]

\* the for loop of extract_data from encodings[i] on: the encodings passed
\* to pd.read_csv, and the outcome of the last read
RECURSIVE TryEncodings(_, _)
TryEncodings(f, i) ==
  LET r == ReadCsv(f, Encodings[i])
  IN  IF r.status = "UnicodeDecodeError" /\ i < Len(Encodings)
      THEN LET later == TryEncodings(f, i + 1)
           IN  [later EXCEPT !.tried = <<Encodings[i]>> \o @]
      ELSE [status |-> r.status, text |-> r.text, tried |-> <<Encodings[i]>>]

\* StockExtractor(file_path)
InitExtract ==
  /\ TransformerUnused
  /\ LoaderUnused
  /\ DriverUnused
  /\ file \in Files
  /\ ex_data = None
  /\ tried = << >>
  /\ ex_result = "none"
  /\ reads = 0
  /\ view = NoView

\* the body of extract_data(): an error of the loop leaves through the
\* except clauses, which re-raise it
ExtractDataCall ==
  LET r == TryEncodings(file, 1)
  IN  /\ tried' = r.tried
      /\ reads' = reads + Len(r.tried)
      /\ ex_data' = IF r.status = "ok" THEN [text |-> r.text] ELSE ex_data
      /\ ex_result' = IF r.status = "ok" THEN "returned" ELSE r.status

\* extract_data()
ExtractData ==
  /\ reads < MaxReads
  /\ ExtractDataCall
  /\ UNCHANGED <<file, view>>
  /\ UNCHANGED <<transformer, first_output, loader, driver>>

NextExtract == ExtractData

SpecExtract == InitExtract /\ [][NextExtract]_vars

\* n_rows: int = 5
DefaultRows == 5

\* the files the accessors are called on: a few lines of 'A' or of a byte
\* that is not UTF-8
AccessFiles ==
  {NoFile} \cup {[exists |-> TRUE, bytes |-> b] :
                   b \in UNION {[1..n -> {65, LF, 233}] : n \in 0..(MaxBytes + 2)}}

\* mutant of NeedsExtract: the file is read at every call
NeedsExtractAlways(d) == TRUE

\* if self.data is None
NeedsExtract(d) == d = None

\* DataFrame.head(n): iloc[:n]
HeadRows(rows, n) ==
  IF n >= 0 THEN SubSeq(rows, 1, IF n < Len(rows) THEN n ELSE Len(rows))
  ELSE SubSeq(rows, 1, IF Len(rows) + n > 0 THEN Len(rows) + n ELSE 0)

InitAccess ==
  /\ TransformerUnused
  /\ LoaderUnused
  /\ DriverUnused
  /\ file \in AccessFiles
  /\ ex_data = None
  /\ tried = << >>
  /\ ex_result = "none"
  /\ reads = 0
  /\ view = NoView

\* get_data_info(): the row and column counts of the table
GetDataInfo ==
  /\ IF NeedsExtract(ex_data)
     THEN reads < MaxReads /\ ExtractDataCall
     ELSE UNCHANGED <<ex_data, tried, ex_result, reads>>
  /\ view' = IF ex_data' = None
             THEN [NoView EXCEPT !.op = "get_data_info", !.raised = TRUE]
             ELSE [NoView EXCEPT !.op = "get_data_info",
                                 !.filas = Len(DataRows(ex_data'))]
  /\ UNCHANGED file
  /\ UNCHANGED <<transformer, first_output, loader, driver>>

\* preview_data(n_rows)
PreviewData ==
  /\ IF NeedsExtract(ex_data)
     THEN reads < MaxReads /\ ExtractDataCall
     ELSE UNCHANGED <<ex_data, tried, ex_result, reads>>
  /\ \E n \in (0..MaxAsked) \cup {DefaultRows} :
       view' = IF ex_data' = None
               THEN [NoView EXCEPT !.op = "preview_data", !.n = n,
                                   !.raised = TRUE]
               ELSE [NoView EXCEPT !.op = "preview_data", !.n = n,
                                   !.rows = HeadRows(DataRows(ex_data'), n)]
  /\ UNCHANGED file
  /\ UNCHANGED <<transformer, first_output, loader, driver>>

\* the file at file_path is removed between two calls
FileRemoved ==
  /\ file.exists
  /\ file' = NoFile
  /\ UNCHANGED <<ex_data, tried, ex_result, reads, view>>
  /\ UNCHANGED <<transformer, first_output, loader, driver>>

NextAccess == ExtractData \/ GetDataInfo \/ PreviewData \/ FileRemoved

SpecAccess == InitAccess /\ [][NextAccess]_vars

(***************************************************************************)
(* main() (src/main.py): the four phases in one try block.                 *)
(***************************************************************************)
\* the phases of main() in the order of its text
Phases == <<"Extract", "Transform", "Load", "Report">>

\* the files main() may find at csv_path: none, an empty one, one byte
MainFiles == {f \in Files : Len(f.bytes) < 2}

\* the tables pd.read_csv may make of the file: no row or one
MainTables ==
  { MakeTable(h, rows) :
      h \in {Header} \cup HeaderVariants,
      rows \in {<< >>} \cup {<<r>> : r \in RawRows} }

\* mutant of ExitStatus: 0 whatever happened
ExitStatusZero(raised) == 0

\* what main() returns: 1 from its except clauses, 0 from the end of its try
\* block
ExitStatus(raised) == IF raised THEN 1 ELSE 0

\* the call the current phase makes has raised
PhaseRaised ==
  \/ stage = "Extract" /\ ex_result \notin {"none", "returned"}
  \/ stage = "Transform" /\ pc = "idle" /\ outcome = "raised"
  \/ stage = "Load" /\ last_call = [op |-> "load_all", result |-> "raised"]

InitMain ==
  /\ TransformerUnused
  /\ LoaderUnused
  /\ file \in MainFiles
  /\ ex_data = None
  /\ tried = << >>
  /\ ex_result = "none"
  /\ reads = 0
  /\ view = NoView
  /\ DriverUnused

\* phase 1 begins: extractor = StockExtractor(csv_path)
MainExtract ==
  /\ stage = "none" /\ exit_code = -1 /\ started = << >>
  /\ stage' = "Extract"
  /\ started' = Append(started, "Extract")
  /\ UNCHANGED <<fatal, exit_code>>
  /\ UNCHANGED <<transformer, first_output, loader, extractor>>

\* phase 2 begins: transformer = StockTransformer(raw_data), on the table
\* extract_data returned
MainTransform ==
  /\ stage = "Extract" /\ ex_result = "returned"
  /\ raw_data' \in MainTables
  /\ stage' = "Transform"
  /\ started' = Append(started, "Transform")
  /\ UNCHANGED <<clean_data, transformation_log, pc, outcome, calls, sorted_as>>
  /\ UNCHANGED <<fatal, exit_code>>
  /\ UNCHANGED <<first_output, loader, extractor>>

\* phase 3 begins: loader = StockLoader(clean_data, output_dir=data_dir), on
\* the table transform_all returned
MainLoad ==
  /\ stage = "Transform" /\ pc = "idle" /\ outcome = "returned"
  /\ data' = clean_data
  /\ stage' = "Load"
  /\ started' = Append(started, "Load")
  /\ UNCHANGED <<load_log, csv_file, parquet_file, db, conns, last_call,
                 query_result>>
  /\ UNCHANGED <<fatal, exit_code>>
  /\ UNCHANGED <<transformer, first_output, extractor>>

\* phase 4: generate_html_report(clean_data), once load_all has returned; it
\* returns the path of the report or raises
MainReport ==
  /\ stage = "Load" /\ last_call = [op |-> "load_all", result |-> "None"]
  /\ started' = Append(started, "Report")
  /\ \E ok \in BOOLEAN :
       IF ok
       THEN /\ stage' = "Browser"
            /\ UNCHANGED <<fatal, exit_code>>
       ELSE /\ stage' = "returned"
            /\ fatal' = "Report"
            /\ exit_code' = ExitStatus(TRUE)
  /\ UNCHANGED <<transformer, first_output, loader, extractor>>

\* open_report_in_browser(report_path, script_dir) and the end of the try
\* block: it returns (no free port, or Ctrl+C) or raises
MainBrowser ==
  /\ stage = "Browser"
  /\ \E ok \in BOOLEAN :
       /\ fatal' = IF ok THEN fatal ELSE "Browser"
       /\ exit_code' = ExitStatus(~ok)
  /\ stage' = "returned"
  /\ UNCHANGED started
  /\ UNCHANGED <<transformer, first_output, loader, extractor>>

\* the except clauses of main(): the exception of the call of a phase
MainExcept ==
  /\ PhaseRaised
  /\ fatal' = stage
  /\ exit_code' = ExitStatus(TRUE)
  /\ stage' = "returned"
  /\ UNCHANGED started
  /\ UNCHANGED <<transformer, first_output, loader, extractor>>

\* the calls main() makes on its three objects are the operations above,
\* each made once in its phase
NextMain ==
  \/ MainExtract
  \/ stage = "Extract" /\ ex_result = "none" /\ ExtractData
  \/ MainTransform
  \/ stage = "Transform" /\ outcome = "none" /\ TransformAll
  \/ NormalizeColumnNames
  \/ ConvertDataTypes
  \/ HandleMissingValues
  \/ RemoveDuplicates
  \/ CleanDates
  \/ NormalizeValues
  \/ CreateFeatures
  \/ MainLoad
  \/ stage = "Load" /\ last_call = NoCall /\ LoadAll
  \/ MainReport
  \/ MainBrowser
  \/ MainExcept

SpecMain == InitMain /\ [][NextMain]_vars

(***************************************************************************)
(* Properties.                                                             *)
(***************************************************************************)
\* transform_all has returned its table / has raised
Returned == pc = "idle" /\ outcome = "returned"

Raised == pc = "idle" /\ outcome = "raised"

\* the cell of row r in the column called name
Cell(t, r, name) == t.rows[r][ColIdx(t, name)]

IsNumber(c, v) == c.k = "num" /\ c.n = v

\* the raw table holds a date text that cannot be parsed
RawDateUnparseable ==
  LET t == NormalizedColumns(raw_data)
  IN  /\ HasCol(t, DATE)
      /\ \E r \in 1..NRows(t) :
           Cell(t, r, DATE).k = "str" /\ ~Parseable(Cell(t, r, DATE).s)

\* C1: for every input table on which transform_all returns, the returned
\* table has no null value in any column.
C1_NoNullInOutput == Returned => NullCount(clean_data) = 0

\* C2: the table returned by transform_all contains no two rows that are
\* identical in every column, also when two input rows differ only by
\* leading or trailing whitespace in a headline.
C2_NoDuplicateRows ==
  Returned =>
    \A i, j \in 1..NRows(clean_data) :
      i # j => clean_data.rows[i] # clean_data.rows[j]

\* C3: in the table returned by transform_all the date of row i is at most
\* the date of row i+1 for every consecutive pair of rows, and the row index
\* is contiguous 0..n-1.
C3_SortedByDate ==
  Returned /\ HasCol(clean_data, DATE) =>
    /\ \A i \in 1..(NRows(clean_data) - 1) :
         /\ Cell(clean_data, i, DATE).k = "num"
         /\ Cell(clean_data, i + 1, DATE).k = "num"
         /\ Cell(clean_data, i, DATE).n <= Cell(clean_data, i + 1, DATE).n
    /\ Len(clean_data.index) = NRows(clean_data)
    /\ \A i \in 1..NRows(clean_data) : clean_data.index[i] = i - 1

\* a later date before an earlier one with a dateless row between them:
\* rows are dropped, reordered and renumbered
C3_Witness ==
  /\ Returned
  /\ raw_data.rows = << <<GoodDate1, Num(1), Headline>>,
                        <<NaN, Num(1), Headline>>,
                        <<GoodDate2, Num(2), Headline>> >>
  /\ NRows(clean_data) = 2
  /\ Cell(clean_data, 1, DATE).n < Cell(clean_data, 2, DATE).n
  /\ clean_data.index = <<0, 1>>

C5_LabelInDomain ==
  Returned /\ HasCol(clean_data, LABEL) =>
    \A r \in 1..NRows(clean_data) :
      \/ IsNumber(Cell(clean_data, r, LABEL), 0)
      \/ IsNumber(Cell(clean_data, r, LABEL), 1)

\* no whitespace at either end
IsTrimmed(s) == s = << >> \/ (s[1] \notin Whitespace /\ s[Len(s)] \notin Whitespace)

\* out is raw without its leading and trailing whitespace, every capital
\* letter replaced by its small letter and every space or hyphen by "_"
IsNormalFormOf(out, raw) ==
  \E lo \in 1..(Len(raw) + 1) :
    /\ \A k \in 1..(lo - 1) : raw[k] \in Whitespace
    /\ \A k \in (lo + Len(out))..Len(raw) : raw[k] \in Whitespace
    /\ lo + Len(out) - 1 <= Len(raw)
    /\ IsTrimmed(out)
    /\ \A k \in 1..Len(out) :
         LET c == raw[lo + k - 1]
         IN  out[k] = IF c \in {" ", "-"} THEN "_"
                      ELSE IF IsUpper(c) THEN Alphabet[Ord[c] + 27]
                      ELSE c

\* the column names have been normalized in the current run
NamesNormalized == clean_data # None /\ pc # "normalize_column_names"

\* C6: after transform_all every column name is trimmed, lower-case and has
\* no space or hyphen; the columns inherited from the raw table keep their
\* number and order, each under the normal form of its raw name; and
\* normalizing a normalized name changes nothing.
C6_ColumnNamesNormalized ==
  NamesNormalized =>
    /\ \A i \in 1..NCols(clean_data) :
         LET name == clean_data.columns[i]
         IN  /\ IsTrimmed(name)
             /\ \A k \in 1..Len(name) :
                  ~IsUpper(name[k]) /\ name[k] \notin {" ", "-"}
             /\ NormalizeName(name) = name
    /\ NCols(clean_data) >= NCols(raw_data)
    /\ \A i \in 1..NCols(raw_data) :
         IsNormalFormOf(clean_data.columns[i], raw_data.columns[i])
    /\ pc = "convert_data_types" =>
         /\ NCols(clean_data) = NCols(raw_data)
         /\ clean_data.rows = raw_data.rows

\* a header with padding, capitals, a tab and a hyphen went through the run
C6_Witness ==
  /\ Returned
  /\ raw_data.columns = << <<" ", "d", "a", "t", "e", " ">>,
                           <<"L", "a", "b", "e", "l">>,
                           <<"T", "o", "p", "-", "1">> >>
  /\ SubSeq(clean_data.columns, 1, 3) = << DATE, LABEL, <<"t", "o", "p", "_", "1">> >>
  /\ NRows(clean_data) = 1

\* C7: for every row of transform_all's output, year, month and day are the
\* calendar components of date, quarter is ((month - 1) // 3) + 1 and lies in
\* 1..4, and day_of_week is the weekday of date with 0 = Monday, 6 = Sunday
\* (1970-01-01, day 0 of datetime64, was a Thursday).
C7_DateParts ==
  Returned /\ HasCol(clean_data, DATE) =>
    \A r \in 1..NRows(clean_data) :
      LET date == Cell(clean_data, r, DATE).n
          y == Cell(clean_data, r, YEAR).n
          m == Cell(clean_data, r, MONTH).n
          d == Cell(clean_data, r, DAY).n
          q == Cell(clean_data, r, QUARTER).n
          w == Cell(clean_data, r, DAY_OF_WEEK).n
      IN  /\ m \in 1..12
          /\ d >= 1 /\ d <= DaysInMonth(y, m)
          /\ DaysFromCivil(y, m, d) = date
          /\ NRows(raw_data) = 1 =>
               LET text == raw_data.rows[1][1].s
               IN  y = IsoYear(text) /\ m = IsoMonth(text) /\ d = IsoDay(text)
          /\ q \in 1..4
          /\ 3 * (q - 1) < m /\ m <= 3 * q
          /\ q = ((m - 1) \div 3) + 1
          /\ w \in 0..6
          /\ w = (date + 3) % 7

\* 2000-02-29, a Tuesday in the first quarter of a century leap year
C7_Witness ==
  /\ Returned
  /\ NRows(raw_data) = 1
  /\ raw_data.rows[1][1] = Str(IsoText(2000, 2, 29))
  /\ NRows(clean_data) = 1
  /\ IsNumber(Cell(clean_data, 1, YEAR), 2000)
  /\ IsNumber(Cell(clean_data, 1, MONTH), 2)
  /\ IsNumber(Cell(clean_data, 1, DAY), 29)
  /\ IsNumber(Cell(clean_data, 1, DAY_OF_WEEK), 1)
  /\ IsNumber(Cell(clean_data, 1, QUARTER), 1)

\* the three-row input of C8: one row with an unparseable date, the other
\* two exact duplicates of each other, and a null label among the rows
C8_Input ==
  /\ NRows(raw_data) = 3
  /\ \E b \in 1..3 :
       /\ raw_data.rows[b][1].k = "str" /\ ~Parseable(raw_data.rows[b][1].s)
       /\ \A i, j \in (1..3) \ {b} :
            /\ raw_data.rows[i] = raw_data.rows[j]
            /\ raw_data.rows[i][1].k = "str" /\ Parseable(raw_data.rows[i][1].s)
  /\ \E r \in 1..3 : IsNull(raw_data.rows[r][2])

\* C8: on that input transform_all returns a table of exactly 1 row, whose
\* label, if it was null, is the mode of the remaining non-null labels.
C8_ScenarioOneRow ==
  C8_Input /\ pc = "idle" /\ outcome # "none" =>
    /\ outcome = "returned"
    /\ NRows(clean_data) = 1
    /\ LET given == {raw_data.rows[r][2].n :
                       r \in {q \in 1..3 : ~IsNull(raw_data.rows[q][2])}}
       IN  Cell(clean_data, 1, LABEL).k = "num"
             /\ Cell(clean_data, 1, LABEL).n \in given

\* C9: a row-level data issue (an unparseable date text, a null label, a
\* null headline) never makes transform_all raise.
C9_RowIssuesNeverRaise == outcome # "raised"

\* the steps of transform_all after type coercion
LaterSteps ==
  {"handle_missing_values", "remove_duplicates", "clean_dates",
   "normalize_values", "create_features"}

\* the log entries the steps after type coercion write
LaterEntries ==
  {"Manejo de nulos", "Eliminacion de duplicados", "Limpieza de fechas",
   "Normalizacion de valores", "Creacion de features"}

LoggedSteps == {transformation_log[i].paso : i \in 1..Len(transformation_log)}

GetTransformationReport ==
  [transformations |-> transformation_log,
   original_shape |-> <<NRows(raw_data), NCols(raw_data)>>,
   clean_shape |-> IF clean_data # None
                   THEN <<NRows(clean_data), NCols(clean_data)>> ELSE << >>,
   original_nulls |-> NullCount(raw_data),
   clean_nulls |-> IF clean_data # None THEN NullCount(clean_data) ELSE -1]

\* the raw label column cannot be cast to integer (it holds a null)
RawLabelUncoercible ==
  LET t == NormalizedColumns(raw_data)
  IN  HasCol(t, LABEL) /\ ~AstypeIntOk(t)

\* the entries a step writes about what it changed
StepEntries == {"Normalizacion de columnas", "Conversion de tipos"} \cup LaterEntries

\* the label column holds what the raw table held, under its raw dtype
LabelAsRaw ==
  LET t == NormalizedColumns(raw_data)
  IN  /\ ColumnAt(clean_data, ColIdx(clean_data, LABEL))
           = ColumnAt(t, ColIdx(t, LABEL))
      /\ clean_data.dtypes[ColIdx(clean_data, LABEL)]
           = t.dtypes[ColIdx(t, LABEL)]

\* C11 as stated: when coercing the label column to integer fails, no error
\* is raised, the label column is left exactly as it was, the remaining
\* coercions and the later steps still run, and the report of
\* get_transformation_report holds an entry that records the failure.
C11_LabelFailureLogged ==
  RawLabelUncoercible /\ pc \in LaterSteps =>
    /\ outcome = "running"
    /\ pc = "handle_missing_values" => LabelAsRaw
    /\ \E i \in 1..Len(GetTransformationReport.transformations) :
         GetTransformationReport.transformations[i].paso \notin StepEntries

\* C11 as amended: when coercing the label column to integer fails, no error
\* is raised, the label column is left exactly as it was, the headline
\* columns are still coerced to text and every later step still runs; the
\* failure is not recorded in the transformation log: the log holds only the
\* steps' own entries, and its type-conversion entry counts the coercions
\* that succeeded, the label not among them.
C11_LabelFailureNotLogged ==
  RawLabelUncoercible =>
    /\ pc \in LaterSteps =>
         /\ outcome = "running"
         /\ \A i \in TopCols(clean_data) : clean_data.dtypes[i] = "object"
         /\ \E i \in 1..Len(transformation_log) :
              /\ transformation_log[i].paso = "Conversion de tipos"
              /\ transformation_log[i].cambios
                   = <<Cardinality(TopCols(clean_data))
                        + (IF RawDateUnparseable THEN 0 ELSE 1)>>
    /\ pc = "handle_missing_values" => LabelAsRaw
    /\ pc = "idle" /\ outcome # "none" =>
         /\ LaterEntries \ LoggedSteps
              \subseteq {"Eliminacion de duplicados", "Limpieza de fechas",
                         "Creacion de features"}
         /\ ~RawDateUnparseable =>
              outcome = "returned" /\ "Creacion de features" \in LoggedSteps
    /\ clean_data # None =>
         \A i \in 1..Len(GetTransformationReport.transformations) :
           GetTransformationReport.transformations[i].paso \in StepEntries

\* a run on a table whose label column held a null, once it has returned two
\* rows
C11_Witness ==
  /\ RawLabelUncoercible
  /\ Returned
  /\ NRows(clean_data) = 2
  /\ "Conversion de tipos" \in LoggedSteps

\* C12: constructing a new StockTransformer on the table transform_all
\* returned and calling transform_all again returns a table equal to it:
\* the same columns and the same rows with the same values in the same order.
C12_IdempotentOnOutput ==
  first_output # None /\ pc = "idle" /\ outcome # "none" =>
    /\ outcome = "returned"
    /\ clean_data.columns = first_output.columns
    /\ clean_data.rows = first_output.rows

\* the entry the loader wrote last, and the formats of its last three entries
LastEntry == load_log[Len(load_log)]

LastThreeFormats ==
  [i \in 1..3 |-> load_log[Len(load_log) - 3 + i].formato]

\* C13: load_all attempts the sinks in the order CSV, Parquet, SQLite; a
\* Parquet failure does not stop it: SQLite is still attempted and load_all
\* returns normally; a CSV or SQLite failure leaves load_all as an error,
\* and after a CSV failure neither Parquet nor SQLite is attempted.
C13_SinkOrder ==
  last_call.op = "load_all" =>
    \/ /\ LastEntry.formato = "CSV"
       /\ ~LastEntry.exitoso
       /\ last_call.result = "raised"
    \/ /\ Len(load_log) >= 3
       /\ LastThreeFormats = <<"CSV", "Parquet", "SQLite">>
       /\ load_log[Len(load_log) - 2].exitoso
       /\ last_call.result = IF LastEntry.exitoso THEN "None" ELSE "raised"

\* a load_all whose Parquet write failed and whose SQLite write was made
C13_Witness ==
  /\ last_call = [op |-> "load_all", result |-> "None"]
  /\ LastThreeFormats = <<"CSV", "Parquet", "SQLite">>
  /\ ~load_log[Len(load_log) - 1].exitoso
  /\ db.tables["stock_sentiment"] = SqlTable(data)

\* the log of a loader on which only the Parquet write failed
OnlyParquetFailed ==
  /\ Len(load_log) = 3
  /\ LastThreeFormats = <<"CSV", "Parquet", "SQLite">>
  /\ load_log[1].exitoso /\ ~load_log[2].exitoso /\ load_log[3].exitoso

\* C14: when only the Parquet write fails on a fresh loader, load_to_parquet
\* returns None without raising, the CSV and SQLite sinks succeed, and
\* get_load_report gives successful_loads = 2 and total_attempts = 3.
C14_OnlyParquetFails ==
  /\ last_call.op = "load_to_parquet" /\ ~LastEntry.exitoso =>
       last_call.result = "None"
  /\ OnlyParquetFailed =>
       /\ GetLoadReport.successful_loads = 2
       /\ GetLoadReport.total_attempts = 3
       /\ csv_file # None
       /\ db.tables[load_log[3].tabla] # None
       /\ last_call.op # "query_sqlite" => last_call.result # "raised"

\* load_all on a fresh loader with the Parquet write failing
C14_Witness ==
  /\ OnlyParquetFailed
  /\ last_call.op = "load_all"
  /\ parquet_file = None
  /\ GetLoadReport.successful_loads = 2

\* the format a sink writes
FormatOf(op) ==
  CASE op = "load_to_csv" -> "CSV"
    [] op = "load_to_parquet" -> "Parquet"
    [] op = "load_to_sqlite" -> "SQLite"

\* what get_load_report gives agrees with the log
ReportAgrees ==
  /\ GetLoadReport.total_attempts = Len(load_log)
  /\ GetLoadReport.successful_loads
       = Cardinality({i \in 1..Len(load_log) : load_log[i].exitoso = TRUE})
  /\ GetLoadReport.successful_loads <= GetLoadReport.total_attempts

\* C15 as stated: every entry of the load log carries the format name, the
\* destination path and the success flag, plus the error detail when the
\* attempt failed; successful_loads is the number of entries whose flag is
\* true, total_attempts the length of the log, the first at most the second.
C15_EntriesCarryPath ==
  /\ \A i \in 1..Len(load_log) :
       /\ {"formato", "archivo", "exitoso"} \subseteq DOMAIN load_log[i]
       /\ ~load_log[i].exitoso => "error" \in DOMAIN load_log[i]
  /\ ReportAgrees

\* the entries of the log: a successful attempt's entry carries the format
\* name, the destination path and the flag; a failed one's the format name,
\* the error detail and the flag, and no destination path
EntryShapes ==
  \A i \in 1..Len(load_log) :
    IF load_log[i].exitoso
    THEN {"formato", "archivo", "exitoso"} \subseteq DOMAIN load_log[i]
    ELSE DOMAIN load_log[i] = {"formato", "error", "exitoso"}

\* a call on the loader keeps the entries there are and appends one entry
\* for each sink it attempted (a query attempts none); nothing is written
\* without an entry
OneEntryPerAttempt ==
  /\ SubSeq(load_log', 1, Len(load_log)) = load_log
  /\ last_call'.op = "load_all" =>
       Len(load_log') - Len(load_log) \in {1, 3}
  /\ last_call'.op = "query_sqlite" => load_log' = load_log
  /\ last_call'.op \notin {"load_all", "query_sqlite"} =>
       /\ Len(load_log') = Len(load_log) + 1
       /\ load_log'[Len(load_log')].formato = FormatOf(last_call'.op)
       /\ load_log'[Len(load_log')].exitoso <=> last_call'.result \notin {"None", "raised"}

\* C15 as amended: every sink attempt appends exactly one entry to the load
\* log; a successful attempt's entry carries the format name, the
\* destination path and the success flag, a failed attempt's entry the
\* format name, the error detail and the success flag but no destination
\* path; in every reachable state successful_loads is the number of entries
\* whose flag is true, total_attempts the length of the log, and the first is
\* at most the second, also across repeated load_all calls.
C15_LogEntries ==
  /\ [](EntryShapes /\ ReportAgrees)
  /\ [][OneEntryPerAttempt]_vars

\* a failed CSV attempt followed by a load_all whose Parquet write failed:
\* four attempts, two of them successful
C15_Witness ==
  /\ Len(load_log) = 4
  /\ last_call.op = "load_all"
  /\ ~load_log[1].exitoso /\ load_log[2].exitoso
  /\ ~load_log[3].exitoso /\ load_log[4].exitoso
  /\ GetLoadReport.successful_loads = 2

\* the last attempt was a SQLite load that succeeded
SqliteLoaded == Len(load_log) > 0 /\ LastEntry.formato = "SQLite" /\ LastEntry.exitoso

\* every SQLite load so far succeeded
AllSqliteLoadsSucceeded ==
  \A i \in 1..Len(load_log) :
    load_log[i].formato = "SQLite" => load_log[i].exitoso

\* the table called name has an index on the column
HasIndexOn(name, column) ==
  \E x \in IndexNames : db.indexes[x] = [table |-> name, column |-> column]

\* C16: after any sequence of successful load_to_sqlite calls on one
\* database file, with the same or with different table names, the table
\* named in the most recent call has an index on date when the data has a
\* date column and an index on label when the data has a label column.
C16_LatestTableIndexed ==
  SqliteLoaded /\ AllSqliteLoadsSucceeded =>
    /\ HasCol(data, DATE) => HasIndexOn(LastEntry.tabla, DATE)
    /\ HasCol(data, LABEL) => HasIndexOn(LastEntry.tabla, LABEL)

\* the cell of the data a stored value stands for: a stored datetime text
\* read back as a date
StoredAs(v, c, dtype) ==
  IF dtype = "datetime64" /\ c.k = "num"
  THEN v.k = "str" /\ Len(v.s) = 19 /\ ParseDate(SubSeq(v.s, 1, 10)) = c.n
  ELSE v = c

\* C17: after a successful load_to_sqlite the named table holds exactly the
\* rows of the loader's table, whatever the table held before (replace, not
\* append), so a repeated call leaves the same contents; the row count of
\* the log entry is the number of rows of the loader's table.
C17_TableReplaced ==
  SqliteLoaded =>
    LET stored == db.tables[LastEntry.tabla]
    IN  /\ stored # None
        /\ stored.columns = data.columns
        /\ Len(stored.rows) = NRows(data)
        /\ \A r \in 1..NRows(data) : \A i \in 1..NCols(data) :
             StoredAs(stored.rows[r][i], data.rows[r][i], data.dtypes[i])
        /\ LastEntry.filas = NRows(data)

\* two successful loads of a table of two rows under the same table name
C17_Witness ==
  /\ Len(load_log) = 2
  /\ SqliteLoaded
  /\ load_log[1].formato = "SQLite" /\ load_log[1].exitoso
  /\ load_log[1].tabla = load_log[2].tabla
  /\ NRows(data) = 2
  /\ LastEntry.filas = 2

\* C18: every load_to_sqlite call that opens the connection closes it before
\* the call ends, on success and on every failure path: no connection is
\* open once the call has returned or raised.
C18_ConnectionClosed == conns = 0

\* the texts pandas writes for a null when told no other
NullMarkers ==
  {NanText, <<"N", "a", "N">>, <<"N", "a", "T">>, <<"N", "o", "n", "e">>,
   <<"<", "N", "A", ">">>}

\* C19: the file load_to_csv wrote reads back with the row count and the
\* column names of the loader's table, and it holds no null marker: every
\* null cell, text or numeric, is an empty field.
C19_CsvRoundTrip ==
  csv_file # None =>
    /\ ReadCsvShape(csv_file).nrows = NRows(data)
    /\ {ReadCsvShape(csv_file).columns[i] :
          i \in 1..Len(ReadCsvShape(csv_file).columns)}
         = {data.columns[i] : i \in 1..NCols(data)}
    /\ Len(ReadCsvShape(csv_file).columns) = NCols(data)
    /\ \A r \in 1..NRows(data) : \A i \in 1..NCols(data) :
         /\ IsNull(data.rows[r][i]) => csv_file.records[r][i] = << >>
         /\ csv_file.records[r][i] \notin NullMarkers

\* a file written from a table with a null number and a null text
C19_Witness ==
  /\ csv_file # None
  /\ last_call = [op |-> "load_to_csv", result |-> CsvPath]
  /\ \E r \in 1..NRows(data) :
       \E i, j \in 1..NCols(data) :
         /\ IsNull(data.rows[r][i]) /\ data.dtypes[i] = "float64"
         /\ IsNull(data.rows[r][j]) /\ data.dtypes[j] = "object"

\* C20: extract_data tries the encodings in the order utf-8, latin-1,
\* iso-8859-1, cp1252; it stops at the first that reads the file without a
\* decoding error and uses it, no later encoding being tried; it raises a
\* decoding error only when all four attempts fail with one.
C20_EncodingOrder ==
  tried # << >> /\ file.exists /\ file.bytes # << >> =>
    /\ Len(tried) <= Len(Encodings)
    /\ tried = SubSeq(Encodings, 1, Len(tried))
    /\ \A i \in 1..(Len(tried) - 1) : ~Decode(file.bytes, tried[i]).ok
    /\ ex_result \in {"returned", "UnicodeDecodeError"}
    /\ ex_result = "returned" =>
         /\ Decode(file.bytes, tried[Len(tried)]).ok
         /\ ex_data = [text |-> Decode(file.bytes, tried[Len(tried)]).text]
    /\ ex_result = "UnicodeDecodeError" =>
         /\ tried = Encodings
         /\ \A i \in 1..Len(Encodings) : ~Decode(file.bytes, Encodings[i]).ok

\* a file that is not UTF-8, read with the second encoding
C20_Witness ==
  /\ ex_result = "returned"
  /\ tried = <<"utf-8", "latin-1">>
  /\ ex_data = [text |-> file.bytes]
  /\ Len(file.bytes) = 2

\* the file is Windows-1252 text that is not valid UTF-8
Cp1252NotUtf8 ==
  /\ file.exists /\ file.bytes # << >>
  /\ Decode(file.bytes, "cp1252").ok
  /\ ~Decode(file.bytes, "utf-8").ok

\* C21: given a Windows-1252 file with bytes that are not valid UTF-8,
\* extract_data succeeds by falling through to cp1252, and cp1252 is the
\* encoding it reports as used.
C21_FallsThroughToCp1252 ==
  Cp1252NotUtf8 /\ tried # << >> =>
    /\ ex_result = "returned"
    /\ tried[Len(tried)] = "cp1252"

\* C22: extract_data raises a file-not-found error when the path does not
\* exist and re-raises the error of any other failed read; an error that is
\* not a decoding error is raised at the first attempt, no other encoding
\* being tried; no table is returned after a failed read.
C22_ReadErrorsRaised ==
  tried # << >> =>
    /\ ~file.exists =>
         ex_result = "FileNotFoundError" /\ tried = <<"utf-8">>
    /\ file.exists /\ file.bytes = << >> =>
         ex_result = "EmptyDataError" /\ tried = <<"utf-8">>
    /\ ex_result = "returned" =>
         /\ ReadCsv(file, tried[Len(tried)]).status = "ok"
         /\ ex_data # None
    /\ ex_result # "returned" =>
         /\ ex_result = ReadCsv(file, tried[Len(tried)]).status
         /\ ex_data = None

\* extract_data called twice on a path without file
C22_Witness ==
  /\ ~file.exists
  /\ ex_result = "FileNotFoundError"
  /\ reads = 2
  /\ ex_data = None

\* what a query_sqlite call that returned gave: the named table as the
\* database holds it, and after a successful load of the loader's table
\* under that name a table with its row count and its column names
QueryReadsTable ==
  last_call.op = "query_sqlite" =>
    /\ last_call.result = "returned" =>
         /\ query_result.columns = db.tables[last_call.table].columns
         /\ query_result.rows = db.tables[last_call.table].rows
    /\ SqliteLoaded /\ LastEntry.tabla = last_call.table =>
         /\ last_call.result = "returned"
         /\ Len(query_result.rows) = NRows(data)
         /\ query_result.columns = data.columns

\* a query_sqlite call leaves the database, the log and the files alone
QueryKeepsDb ==
  last_call'.op = "query_sqlite" =>
    db' = db /\ load_log' = load_log /\ csv_file' = csv_file

\* C23: query_sqlite without a query runs SELECT * on the named table;
\* right after a successful load_to_sqlite of a table T under that name it
\* returns a table with the row count and the column names of T; it does
\* not change the contents of the database.
C23_QueryReadsBack ==
  /\ []QueryReadsTable
  /\ [][QueryKeepsDb]_vars

\* a query on the table a load has just written two rows to
C23_Witness ==
  /\ last_call.op = "query_sqlite"
  /\ last_call.result = "returned"
  /\ SqliteLoaded
  /\ LastEntry.tabla = last_call.table
  /\ Len(query_result.rows) = 2

\* get_clean_data()
\* mutant of GetCleanData: the clean table whether or not there is one
GetCleanDataNoFallback == clean_data

GetCleanData == IF clean_data # None THEN clean_data ELSE raw_data

\* what get_clean_data returns: the raw table before the first transform_all
\* call, the table the call works on from then on
CleanDataServed ==
  /\ calls = 0 => GetCleanData = raw_data
  /\ calls > 0 => GetCleanData = clean_data /\ clean_data # None

CsvFromFilledCopy ==
  csv_file # None => csv_file = ToCsv(TextNullsFilled(data))

\* C25: no operation on the loader (load_to_csv, load_to_parquet,
\* load_to_sqlite, load_all, query_sqlite), succeeding or failing, changes
\* the table the loader holds; the CSV file is written from a copy with the
\* text nulls filled, the loader's table keeping its nulls.
C25_DataKept == []CsvFromFilledCopy /\ [][data' = data]_vars

\* a table with a null text has been written to CSV and a later sink has
\* failed; the table still holds the null
C25_Witness ==
  /\ Len(load_log) = 2
  /\ load_log[1].formato = "CSV" /\ load_log[1].exitoso
  /\ ~load_log[2].exitoso
  /\ csv_file # None
  /\ data # TextNullsFilled(data)

\* the phases started so far are the first ones of Phases, in its order
StartedInOrder ==
  /\ Len(started) <= Len(Phases)
  /\ started = SubSeq(Phases, 1, Len(started))

\* the place of a phase in Phases (the browser comes after the last)
PhaseNo(name) ==
  IF name = "Browser" THEN Len(Phases)
  ELSE CHOOSE i \in 1..Len(Phases) : Phases[i] = name

\* C26: main starts the phases in the order Extract, Transform, Load,
\* report generation; once the call of a phase has raised no later phase
\* starts and main returns 1; main returns 0 only after all four phases, none
\* of whose calls raised.
C26_PhasesInOrder ==
  /\ StartedInOrder
  /\ PhaseRaised => Len(started) = PhaseNo(stage)
  /\ fatal # "none" =>
       /\ stage = "returned" /\ exit_code = 1
       /\ Len(started) = PhaseNo(fatal)
  /\ stage = "returned" =>
       (exit_code = 1) = (fatal # "none")
  /\ exit_code = 0 =>
       /\ stage = "returned" /\ started = Phases
       /\ ex_result = "returned"
       /\ outcome = "returned"
       /\ last_call = [op |-> "load_all", result |-> "None"]
  /\ exit_code \in {-1, 0, 1}
  /\ exit_code = -1 <=> stage # "returned"

\* main has returned 1 because transform_all raised: the Load phase and the
\* report never started
C26_Witness ==
  /\ stage = "returned" /\ exit_code = 1
  /\ fatal = "Transform"
  /\ started = <<"Extract", "Transform">>
  /\ data = None

\* m is the label the nulls of a label column are to be given: 0 when the
\* column has no label, else a label of the column that no other label
\* outnumbers and that is the smallest of those as frequent as it is
IsFillLabel(cells, m) ==
  LET present == {r \in 1..Len(cells) : ~IsNull(cells[r])}
      Times(v) == Cardinality({r \in present : cells[r].n = v})
  IN  IF present = {} THEN m = 0
      ELSE /\ \E r \in present : cells[r].n = m
           /\ \A r \in present :
                \/ Times(cells[r].n) < Times(m)
                \/ Times(cells[r].n) = Times(m) /\ m <= cells[r].n

\* what the null-handling step made of the table: same rows and columns;
\* null labels filled, the others as they were; null top* cells emptied
NullsHandled(before, after) ==
  /\ after.columns = before.columns
  /\ NRows(after) = NRows(before)
  /\ \A r \in 1..NRows(before) : \A i \in 1..NCols(before) :
       LET was == before.rows[r][i]
           is == after.rows[r][i]
       IN  IF before.columns[i] = LABEL
           THEN IF IsNull(was)
                THEN is.k = "num" /\ IsFillLabel(ColumnAt(before, i), is.n)
                ELSE is = was
           ELSE IF i \in TopCols(before)
           THEN IF IsNull(was) THEN is = Str(<< >>) ELSE is = was
           ELSE is = was

\* C27: the null-handling step gives every null label the most frequent
\* non-null label of the column (the smallest on a tie), or 0 when the column
\* has no non-null label, leaves the non-null labels as they are, and makes
\* every null of a top* column the empty string.
C27_NullsFilled ==
  [][pc = "handle_missing_values" => NullsHandled(clean_data, clean_data')]_vars

\* the step has run on labels 0, 1 and null: a tie, the null became 0
C27_Witness ==
  /\ pc = "remove_duplicates"
  /\ raw_data.columns = Header
  /\ NRows(raw_data) = 3
  /\ \E a, b, c \in 1..3 :
       /\ raw_data.rows[a][2] = Num(0)
       /\ raw_data.rows[b][2] = Num(1)
       /\ IsNull(raw_data.rows[c][2])
       /\ clean_data.rows[c][ColIdx(clean_data, LABEL)] = Num(0)

\* C28: in the table transform_all returns, every value of every headline
\* (top*) column is a text, is not null, is not the literal 'nan' and has no
\* whitespace at either end; a raw headline that is missing or 'nan' has
\* become the empty string.
C28_HeadlinesClean ==
  Returned =>
    /\ \A r \in 1..NRows(clean_data) : \A i \in TopCols(clean_data) :
         LET c == clean_data.rows[r][i]
         IN  /\ c.k = "str"
             /\ c.s # NanText
             /\ StrStrip(c.s) = c.s
    /\ \A i \in TopCols(clean_data) :
         (/\ NRows(raw_data) = 1 /\ NRows(clean_data) = 1
          /\ \/ IsNull(raw_data.rows[1][i])
             \/ raw_data.rows[1][i] = Str(NanText))
           => clean_data.rows[1][i] = Str(<< >>)

\* the entries of the seven steps in the order transform_all runs them
StepOrder ==
  <<"Normalizacion de columnas", "Conversion de tipos", "Manejo de nulos",
    "Eliminacion de duplicados", "Limpieza de fechas",
    "Normalizacion de valores", "Creacion de features">>

StepNo(paso) == CHOOSE i \in 1..Len(StepOrder) : StepOrder[i] = paso

\* the places of the log where an entry is followed by one of the same or
\* of an earlier step: the places where a further run begins
RunBreaks ==
  {i \in 1..(Len(transformation_log) - 1) :
     StepNo(transformation_log[i + 1].paso)
       <= StepNo(transformation_log[i].paso)}

EntriesOf(paso) ==
  Cardinality({i \in 1..Len(transformation_log) :
                 transformation_log[i].paso = paso})

\* the log is made of the entries of the runs so far, run after run, those
\* of a run in the order of the steps; every run that came to its end left
\* one entry of value normalization, and one of feature creation if it
\* returned; a further call returned the table the call before returned
LogByRuns ==
  /\ calls = 0 => transformation_log = << >>
  /\ calls > 0 => Cardinality(RunBreaks) < calls
  /\ Returned =>
       /\ EntriesOf("Normalizacion de valores") = calls
       /\ EntriesOf("Creacion de features") = calls
  /\ Raised =>
       /\ EntriesOf("Normalizacion de valores") = calls
       /\ EntriesOf("Creacion de features") = 0
  /\ Returned /\ first_output # None => clean_data = first_output

\* a step leaves the entries of the log where they are
LogExtended ==
  /\ Len(transformation_log') >= Len(transformation_log)
  /\ SubSeq(transformation_log', 1, Len(transformation_log))
       = transformation_log

\* C29: the transformation log is append-only and, within a run, in the
\* order of the steps (a step that changed nothing may add no entry, value
\* normalization and feature creation always add one); a second transform_all
\* call on the same transformer returns a table equal to the one the first
\* call returned and appends the entries of its run after those of the first.
C29_LogAppendOnly == []LogByRuns /\ [][LogExtended]_vars

\* a second call has returned the table of the first, two rows of one date
\* that the sort may put either way; the log holds the entries of both runs
C29_Witness ==
  /\ Returned /\ calls = 2
  /\ first_output # None /\ clean_data = first_output
  /\ Cardinality(RunBreaks) = 1
  /\ Len(transformation_log) > Len(StepOrder)
  /\ NRows(clean_data) = 2
  /\ clean_data.rows[1] # clean_data.rows[2]
  /\ clean_data.rows[1][ColIdx(clean_data, DATE)]
       = clean_data.rows[2][ColIdx(clean_data, DATE)]

\* what the last accessor call gave is what the stored table holds
ViewOfData ==
  /\ view.op # "none" /\ ~view.raised => ex_data # None
  /\ view.op = "get_data_info" /\ ~view.raised =>
       view.filas = Len(DataRows(ex_data))
  /\ view.op = "preview_data" /\ ~view.raised =>
       LET rows == DataRows(ex_data)
       IN  /\ Len(view.rows) = IF view.n < Len(rows) THEN view.n ELSE Len(rows)
           /\ \A i \in 1..Len(view.rows) : view.rows[i] = rows[i]
  /\ view.raised => view.rows = << >>

\* a call of an accessor reads the file only when no table is stored, and
\* leaves a stored table as it is
AccessorLazy ==
  GetDataInfo \/ PreviewData =>
    IF ex_data # None
    THEN reads' = reads /\ ex_data' = ex_data
    ELSE reads' > reads

\* a read that fails leaves the stored table as it was
FailedReadKeeps ==
  reads' > reads /\ ex_result' # "returned" => ex_data' = ex_data

\* C30: get_data_info and preview_data call extract_data only when no table
\* has been extracted, and otherwise do not read the file; neither changes
\* the stored table; preview_data(n) returns its first min(n, rows) rows, 5
\* by default; an extract_data call that raises leaves the stored table as it
\* was, None if nothing had been extracted.
C30_AccessorsLazy ==
  /\ []ViewOfData
  /\ [][AccessorLazy]_vars
  /\ [][FailedReadKeeps]_vars

\* a table of two rows was extracted and previewed with n_rows = 1 at no
\* further read; the file is gone and extract_data has raised since
C30_Witness ==
  /\ ex_data # None /\ Len(DataRows(ex_data)) = 2
  /\ view.op = "preview_data" /\ view.n = 1 /\ Len(view.rows) = 1
  /\ ~file.exists
  /\ ex_result = "FileNotFoundError"

====
